---- MODULE Spec2Model ----
(***************************************************************************)
(* MemoryPilot: the store (src/db.rs), the graph builder (src/graph.rs),   *)
(* the garbage collector (src/gc.rs) and the tool handlers (src/tools.rs). *)
(*                                                                         *)
(* Text.  A content string is a sequence of whitespace-separated tokens.   *)
(* A token is [pre, w, post]: an alphanumeric word w with the punctuation  *)
(* written before and after it ("[MERGED]" is ["[", "MERGED", "]"]).  The  *)
(* token "-" that opens a bullet is preceded by a newline, every other     *)
(* token by one space.  The empty sequence is the empty string.            *)
(*                                                                         *)
(* Time.  now is the wall clock in ticks, TicksPerDay ticks to a day.      *)
(* Several calls may happen within one tick; the table keeps its rows in   *)
(* the order of their updated_at (real timestamps are distinct), so the    *)
(* position of a row in memories is its rank by updated_at.  The text of a *)
(* timestamp is <<local, offset>>: the digits of its date and time, then   *)
(* its UTC offset ("Z" and "+00:00" are offset 0); it names the instant    *)
(* local - offset.  SQLite compares expires_at with now as text.           *)
(***************************************************************************)
EXTENDS Integers, Sequences, FiniteSets, TLC

VARIABLES
    now,          \* Utc::now(), in ticks
    memories,     \* table memories, rows in ascending order of updated_at
    memories_fts, \* table memories_fts: rows [rowid, content, tags, kind, project]
    memory_links, \* table memory_links: rows [source_id, target_id, relation_type]
    memory_entities, \* table memory_entities: rows [memory_id, entity_kind, entity_value]
    projects,     \* table projects: the set of names
    next_uuid,    \* the ids Uuid::new_v4 has handed out are 1 .. next_uuid - 1
    last,         \* the last tool call and its response
    recent_changes, \* FileWatcherState.recent_changes, oldest first
    lock,         \* the owner of the Mutex of WATCHER_STATE: a thread or "none"
    request,      \* the main thread inside handle_search or handle_get_file_context
    watcher,      \* the thread of start_watcher inside its loop over an event
    stdin,        \* the lines that run_mcp_server has read from stdin
    stdout,       \* the response lines that run_mcp_server has written
    serving,      \* run_mcp_server is in its loop over the lines of stdin
    embedding_vec,  \* an embedding, each f32 as its sign bit and its 31 low bits
    embedding_blob, \* the bytes vec_to_blob made of it, once it has
    restored_vec,   \* the vector blob_to_vec made of these bytes, once it has
    prompt_file,    \* a global-prompt file: exists, modified (its mtime), content
    PROMPT_CACHE,   \* the entry of that path in PROMPT_CACHE: (modified, content)
    prompt_call     \* the call of get_cached_prompt for that path and its result

vars == <<now, memories, memories_fts, memory_links, memory_entities, projects,
          next_uuid, last, recent_changes, lock, request, watcher, stdin, stdout,
          serving, embedding_vec, embedding_blob, restored_vec, prompt_file,
          PROMPT_CACHE, prompt_call>>

\* The streams of the server and the state of its loop.
stream == <<stdin, stdout, serving>>

\* An embedding on its way into the embedding column and back.
codec == <<embedding_vec, embedding_blob, restored_vec>>

\* A global-prompt file, its cache entry and the lookup of it.
prompt == <<prompt_file, PROMPT_CACHE, prompt_call>>

\* The state of the two threads between two tool calls and two events.
threads == <<lock, request, watcher>>

\* ------------------------------------------------------------------ bounds
MaxClock == 2
TicksPerDay == 1
MaxMem == 2
MaxId == 3
MaxMemGC == 3
MaxIdGC == 5
MaxAccess == 1
MaxChanges == 2
MaxChangesQueue == 21
MaxMemThreads == 1
MaxLines == 3
MaxVecLen == 2

\* ------------------------------------------------------- program constants
NULL == -1
NoneStr == "<none>"
DEDUP_THRESHOLD_PCT == 85
DEDUP_SCAN_LIMIT == 200
LINK_TARGET_LIMIT == 10
DEFAULT_AGE_DAYS == 30
DEFAULT_IMPORTANCE_THRESHOLD == 3
DEFAULT_MAX_MERGE_GROUP == 10
MAX_BULLETS == 8
BULLET_MAX_CHARS == 120
SUBJECT_WORDS == 5
GC_IMPORTANCE == 3
DEFAULT_IMPORTANCE == 3

VALID_KINDS == {"fact", "preference", "decision", "pattern", "snippet",
                "bug", "credential", "todo", "note"}

compressible_kinds == <<"bug", "snippet", "note", "todo">>

\* -------------------------------------------------------------------- text
Tok(pre, w, post) == [pre |-> pre, w |-> w, post |-> post]
Wd(w) == Tok("", w, "")

\* The words of the model's vocabulary that hold an upper-case letter.
to_lowercase(w) ==
    CASE w = "Fix" -> "fix"
      [] w = "JWT" -> "jwt"
      [] w = "MERGED" -> "merged"
      [] w = "Bugs" -> "bugs"
      [] w = "Notes" -> "notes"
      [] w = "Code" -> "code"
      [] w = "TODOs" -> "todos"
      [] w = "Items" -> "items"
      [] w = "Stripe" -> "stripe"
      [] w = "A" -> "a"
      [] OTHER -> w

RECURSIVE SumTokLen(_)
SumTokLen(c) ==
    IF c = <<>> THEN 0
    ELSE Len(c[1].pre) + Len(c[1].w) + Len(c[1].post) + SumTokLen(Tail(c))

\* str::len(): the bytes of the tokens and one separator between two tokens.
str_len(c) == IF c = <<>> THEN 0 ELSE SumTokLen(c) + Len(c) - 1

\* str::trim().is_empty()
trim_is_empty(c) == c = <<>>

Range(s) == {s[i] : i \in 1..Len(s)}

\* Iterator::collect: the sequence with every element computed.
collect(s) == SubSeq(s, 1, Len(s))

\* A value under a name: Let(e, LAMBDA x : b) is b with e for x.
Let(x, F(_)) == F(x)

\* Let with e computed once, before b.
Once(x, F(_)) == CHOOSE r \in {F(v) : v \in {x}} : TRUE

Max2(a, b) == IF a >= b THEN a ELSE b
Min2(a, b) == IF a <= b THEN a ELSE b

\* A write that stores the importance as passed.
clamp_missing(i) == i

\* i32::clamp(1, 5)
clamp(i) == Max2(1, Min2(5, i))

\* embedding::tokenize: the lower-cased words of two characters or more (a
\* word of the model holds no '_' and no '-').
tokenize(c) ==
    Let(SelectSeq(c, LAMBDA t : Len(t.w) >= 2), LAMBDA ws :
        [i \in 1..Len(ws) |-> to_lowercase(ws[i].w)])

\* embedding::get_synonyms
get_synonyms(word) ==
    CASE word \in {"login", "signin", "authenticate"} -> <<"auth", "jwt", "session">>
      [] word = "auth" -> <<"login", "jwt", "session", "security">>
      [] word = "jwt" -> <<"auth", "token", "session">>
      [] word \in {"db", "database", "sql"} -> <<"sqlite", "postgres", "supabase">>
      [] word \in {"ui", "frontend"} -> <<"components", "interface", "design">>
      [] word \in {"api", "backend"} -> <<"endpoints", "server", "routes">>
      [] word \in {"bug", "error", "fix"} -> <<"issue", "patch", "problem">>
      [] word \in {"style", "css"} -> <<"tailwind", "styling", "design">>
      [] word \in {"perf", "performance"} -> <<"speed", "optimization", "fast">>
      [] word \in {"deploy", "production"} -> <<"hosting", "release", "cloudflare", "vercel">>
      [] OTHER -> <<>>

RECURSIVE extra_tokens(_)
extra_tokens(tokens) ==
    IF tokens = <<>> THEN <<>>
    ELSE get_synonyms(Head(tokens)) \o extra_tokens(Tail(tokens))

VECTOR_DIM == 384

\* embedding::embed_text.  The vector is a function of the tokens and their
\* synonyms, in order (term frequencies, hashed terms and bigrams): it is
\* written as its number of components and these tokens.
embed_text(text) ==
    [dim |-> VECTOR_DIM, tokens |-> tokenize(text) \o extra_tokens(tokenize(text))]

\* An f32 of sign bit sign and low bits bits (exponent and mantissa).
F32(sign, bits) == [sign |-> sign, bits |-> bits]

\* f32::to_be_bytes
to_be_bytes(f) ==
    <<f.sign * 128 + f.bits \div 16777216, (f.bits \div 65536) % 256,
      (f.bits \div 256) % 256, f.bits % 256>>

\* f32::to_le_bytes
to_le_bytes(f) ==
    <<f.bits % 256, (f.bits \div 256) % 256, (f.bits \div 65536) % 256,
      f.sign * 128 + f.bits \div 16777216>>

\* f32::from_le_bytes
from_le_bytes(c) ==
    F32(c[4] \div 128, (c[4] % 128) * 16777216 + c[3] * 65536 + c[2] * 256 + c[1])

RECURSIVE flat_map(_)
flat_map(chunks) == IF chunks = <<>> THEN <<>> ELSE Head(chunks) \o flat_map(Tail(chunks))

\* embedding::vec_to_blob
vec_to_blob(v) == flat_map([i \in 1..Len(v) |-> to_le_bytes(v[i])])

\* slice::chunks_exact(4): the chunks of four bytes, without the rest.
chunks_exact4(blob) == [i \in 1..(Len(blob) \div 4) |-> SubSeq(blob, 4 * i - 3, 4 * i)]

\* embedding::blob_to_vec
blob_to_vec(blob) ==
    Let(chunks_exact4(blob), LAMBDA chunks :
        [i \in 1..Len(chunks) |-> from_le_bytes(chunks[i])])

\* Database::normalize: lower-case, every non-alphanumeric character a space,
\* whitespace collapsed: the lower-cased words, in order.
normalize(c) ==
    LET ws == SelectSeq(c, LAMBDA t : t.w # "")
    IN [i \in 1..Len(ws) |-> to_lowercase(ws[i].w)]

\* Database::similarity: word-level Jaccard, as the fraction num / den.
similarity(a, b) ==
    LET aw == Range(a)
        bw == Range(b)
    IN IF aw = {} /\ bw = {} THEN [num |-> 1, den |-> 1]
       ELSE [num |-> Cardinality(aw \cap bw), den |-> Cardinality(aw \cup bw)]

\* similarity(..) >= DEDUP_THRESHOLD
at_least_threshold(s) == s.num * 100 >= DEDUP_THRESHOLD_PCT * s.den

\* ------------------------------------------------------------------- graph
TECH_PATTERNS ==
    {"svelte", "sveltekit", "svelte 5", "react", "vue", "next", "nuxt", "astro",
     "supabase", "firebase", "postgresql", "sqlite", "redis", "mongodb",
     "tailwind", "css", "sass", "bootstrap",
     "rust", "typescript", "javascript", "python", "swift", "go", "java",
     "cloudflare", "vercel", "netlify", "aws", "hetzner", "docker",
     "stripe", "auth", "jwt", "oauth", "better-auth",
     "onnx", "bert", "openai", "claude", "llm", "mcp",
     "tauri", "electron", "flutter", "xcode",
     "git", "github", "npm", "cargo", "pnpm"}

COMPONENT_HINTS ==
    {"component", "page", "layout", "modal", "button", "form", "input",
     "header", "footer", "sidebar", "nav", "card", "table", "dialog",
     "dashboard", "settings", "profile", "auth", "login", "signup"}

\* str::contains over the vocabulary: the patterns and hints that occur in a
\* lower-cased word.  No pattern with a space or a hyphen occurs in a content
\* of the model, and no word but these two holds a pattern or a hint.
patterns_in(lw) ==
    CASE lw = "jwt" -> {"jwt"}
      [] lw = "stripe" -> {"stripe"}
      [] OTHER -> {}

lower_contains(c, pat) == \E i \in 1..Len(c) : pat \in patterns_in(to_lowercase(c[i].w))

\* The byte offset of the word of token i in the content.
word_offset(c, i) == str_len(SubSeq(c, 1, i - 1)) + (IF i > 1 THEN 1 ELSE 0) + Len(c[i].pre)

\* str::find: the offset of the first word that holds s (s a pattern, a hint
\* or a whole lower-cased word).
find_word(c, s) ==
    Let({i \in 1..Len(c) : s \in patterns_in(to_lowercase(c[i].w)) \/ s = to_lowercase(c[i].w)},
        LAMBDA hits :
            IF hits = {} THEN NULL
            ELSE word_offset(c, CHOOSE i \in hits : \A j \in hits : i <= j))

\* graph::lower_contains_near
lower_contains_near(c, a, b, distance) ==
    Let(find_word(c, a), LAMBDA pos_a :
    Let(find_word(c, b), LAMBDA pos_b :
        /\ pos_a # NULL
        /\ pos_b # NULL
        /\ (IF pos_a > pos_b THEN pos_a - pos_b ELSE pos_b - pos_a) <= distance))

\* The words of the vocabulary that start with an upper-case letter.
starts_uppercase(w) == w # to_lowercase(w)

\* graph::extract_entities, as the set of (kind, value) it returns.  Step 3
\* (file paths) needs a token with '/' and '.' or a source-file extension; a
\* token of the model holds '.' only as the full stop that ends a word, so the
\* step yields nothing.
extract_entities(content, project) ==
    LET proj == IF project = NoneStr THEN {}
                ELSE {[kind |-> "project", value |-> project]}
        tech == {[kind |-> "tech", value |-> t] :
                     t \in {p \in TECH_PATTERNS : lower_contains(content, p)}}
        comp == Let({h \in COMPONENT_HINTS : lower_contains(content, h)}, LAMBDA hints :
                    {[kind |-> "component", value |-> content[i].w] :
                        i \in {j \in 1..Len(content) :
                                 /\ Len(content[j].w) > 2
                                 /\ starts_uppercase(content[j].w)
                                 /\ \E h \in hints :
                                       lower_contains_near(content, h,
                                           to_lowercase(content[j].w), 50)}})
    IN proj \cup tech \cup comp

\* graph::infer_relation
infer_relation(source_kind, target_kind) ==
    CASE source_kind = "bug" /\ target_kind \in {"decision", "architecture"} -> "resolved_by"
      [] source_kind = "decision" /\ target_kind = "bug" -> "resolves"
      [] source_kind = "bug" /\ target_kind = "snippet" -> "fixed_by"
      [] source_kind = "snippet" /\ target_kind = "bug" -> "fixes"
      [] source_kind = "decision" /\ target_kind \in {"architecture", "pattern"} -> "implements"
      [] source_kind = "architecture" /\ target_kind = "decision" -> "decided_by"
      [] OTHER -> IF source_kind = "todo" THEN "depends_on"
                  ELSE IF target_kind = "todo" THEN "blocks"
                  ELSE "relates_to"

\* ------------------------------------------------------------------- store
\* Option<T>: Some(x), and None with a value of the type of T that is never read.
Some(x) == [some |-> TRUE, v |-> x]
NoneInt == [some |-> FALSE, v |-> 0]
NoneSeq == [some |-> FALSE, v |-> <<>>]

DB == [memories |-> memories, memories_fts |-> memories_fts,
       memory_links |-> memory_links, memory_entities |-> memory_entities,
       projects |-> projects, next_uuid |-> next_uuid]

ids_of(db) == {db.memories[i].id : i \in 1..Len(db.memories)}

\* The position of the row with this id, 0 when there is none.
index_of(db, id) ==
    IF \E i \in 1..Len(db.memories) : db.memories[i].id = id
    THEN CHOOSE i \in 1..Len(db.memories) : db.memories[i].id = id
    ELSE 0

\* A new row gets the largest rowid of the table plus one.
last_insert_rowid(db) ==
    IF db.memories = <<>> THEN 1
    ELSE 1 + (CHOOSE r \in {db.memories[i].rowid : i \in 1..Len(db.memories)} :
                 \A i \in 1..Len(db.memories) : db.memories[i].rowid <= r)

\* The rows in the order of a scan without ORDER BY: by rowid.
rows_by_rowid(mems) ==
    Let(collect([i \in 1..Len(mems) |->
            Cardinality({j \in 1..Len(mems) : mems[j].rowid < mems[i].rowid})]),
        LAMBDA smaller :
        [k \in 1..Len(mems) |-> mems[CHOOSE i \in 1..Len(mems) : smaller[i] = k - 1]])

Reverse(s) == [i \in 1..Len(s) |-> s[Len(s) + 1 - i]]

Take(s, n) == SubSeq(s, 1, Min2(n, Len(s)))

Perms(S) == {f \in [1..Cardinality(S) -> S] : \A i, j \in 1..Cardinality(S) : f[i] = f[j] => i = j}

fts_row(rowid, content, tags, kind, project) ==
    [rowid |-> rowid, content |-> content, tags |-> tags, kind |-> kind,
     project |-> IF project = NoneStr THEN "" ELSE project]

\* The empty string, as an argument or a column value.
EmptyStr == Some(<<>>)

\* A caller's timestamp string: date and time local, UTC offset offset.
timestamp(local, offset) == Some(<<local, offset>>)

\* The instant a timestamp string names.
instant(text) == text[1] - text[2]

\* DateTime<Utc>::to_rfc3339: the offset is written +00:00.
to_rfc3339(t) == <<t, 0>>

\* Byte order of two offsets: "+" sorts before "-", then the digits decide.
offset_lt(a, b) ==
    \/ a >= 0 /\ b < 0
    \/ a >= 0 /\ b >= 0 /\ a < b
    \/ a < 0 /\ b < 0 /\ -a < -b

\* Text comparison a < b of SQLite (memcmp): the empty string sorts first,
\* the date and time are compared before the offset.
text_lt(a, b) ==
    IF a = <<>> THEN b # <<>>
    ELSE IF b = <<>> THEN FALSE
    ELSE a[1] < b[1] \/ (a[1] = b[1] /\ offset_lt(a[2], b[2]))

\* expires_at IS NOT NULL AND expires_at < ?1, with ?1 = now.to_rfc3339()
expired(m, t) == m.expires_at.some /\ text_lt(m.expires_at.v, to_rfc3339(t))

\* Database::find_duplicate: the first row of the scope, most recently updated
\* first, whose normalized content is similar enough (its position, or 0).
find_duplicate(db, content, project) ==
    Let(normalize(content), LAMBDA norm :
    Let(Take(Reverse(SelectSeq(db.memories, LAMBDA m : m.project = project)),
             DEDUP_SCAN_LIMIT), LAMBDA scope :
    Let({i \in 1..Len(scope) :
            at_least_threshold(similarity(norm, normalize(scope[i].content)))}, LAMBDA hits :
        IF hits = {} THEN 0
        ELSE index_of(db, scope[CHOOSE i \in hits : \A j \in hits : i <= j].id))))

\* A rebuild that inserts no link from a target back to the memory.
rev_links_missing(db, memory, target_ids) == {}

\* The links that rebuild_links inserts from the targets (indexes of rows) to
\* the memory.
rev_links(db, memory, target_ids) ==
    {[source_id |-> db.memories[i].id, target_id |-> memory.id,
      relation_type |-> infer_relation(db.memories[i].kind, memory.kind)] :
        i \in target_ids}

\* Database::rebuild_links.  Each entity links up to LINK_TARGET_LIMIT other
\* memories that hold its value.
rebuild_links(db, memory) ==
    Let(extract_entities(memory.content, memory.project), LAMBDA entities :
    Let({e \in db.memory_entities : e.memory_id # memory.id} \cup
        {[memory_id |-> memory.id, entity_kind |-> e.kind, entity_value |-> e.value] :
            e \in entities}, LAMBDA new_entities :
        LET others(e) == {i \in 1..Len(db.memories) :
                            /\ db.memories[i].id # memory.id
                            /\ \E x \in new_entities :
                                  /\ x.memory_id = db.memories[i].id
                                  /\ x.entity_value = e.value}
            limited(S) == IF Cardinality(S) <= LINK_TARGET_LIMIT THEN S
                          ELSE CHOOSE T \in SUBSET S : Cardinality(T) = LINK_TARGET_LIMIT
        IN Let(UNION {limited(others(e)) : e \in entities}, LAMBDA target_ids :
               [db EXCEPT
                  !.memory_entities = new_entities,
                  !.memory_links =
                      {l \in @ : l.source_id # memory.id /\ l.target_id # memory.id}
                      \cup {[source_id |-> memory.id, target_id |-> db.memories[i].id,
                             relation_type |->
                                 infer_relation(memory.kind, db.memories[i].kind)] :
                               i \in target_ids}
                      \cup rev_links(db, memory, target_ids)])))

\* An update that leaves the embedding column as it was.
update_memory_keeps_embedding(db, t, id, content, kind, tags, importance, expires_at) ==
    Let(index_of(db, id), LAMBDA i :
        IF i = 0 THEN [db |-> db, found |-> FALSE, mem |-> <<>>]
        ELSE Let([db.memories[i] EXCEPT
                     !.content = IF content.some THEN content.v ELSE @,
                     !.kind = IF kind # NoneStr THEN kind ELSE @,
                     !.tags = IF tags.some THEN tags.v ELSE @,
                     !.importance = clamp(IF importance.some THEN importance.v ELSE @),
                     !.expires_at = IF expires_at.some THEN expires_at ELSE @,
                     !.updated_at = t], LAMBDA mem :
                 [db |-> rebuild_links(
                      [db EXCEPT
                         !.memories = SubSeq(@, 1, i - 1) \o SubSeq(@, i + 1, Len(@))
                                         \o <<mem>>,
                         !.memories_fts = {f \in @ : f.rowid # mem.rowid} \cup
                             {fts_row(mem.rowid, mem.content, mem.tags, mem.kind,
                                      mem.project)}],
                      mem),
                  found |-> TRUE, mem |-> mem]))

\* An update that leaves updated_at alone.
update_memory_keeps_updated_at(db, t, id, content, kind, tags, importance, expires_at) ==
    Let(index_of(db, id), LAMBDA i :
        IF i = 0 THEN [db |-> db, found |-> FALSE, mem |-> <<>>]
        ELSE Let([db.memories[i] EXCEPT
                     !.content = IF content.some THEN content.v ELSE @,
                     !.kind = IF kind # NoneStr THEN kind ELSE @,
                     !.tags = IF tags.some THEN tags.v ELSE @,
                     !.importance = clamp(IF importance.some THEN importance.v ELSE @),
                     !.expires_at = IF expires_at.some THEN expires_at ELSE @,
                     !.embedding = embed_text(IF content.some THEN content.v
                                              ELSE db.memories[i].content)], LAMBDA mem :
                 [db |-> rebuild_links(
                      [db EXCEPT
                         !.memories = SubSeq(@, 1, i - 1) \o SubSeq(@, i + 1, Len(@))
                                         \o <<mem>>,
                         !.memories_fts = {f \in @ : f.rowid # mem.rowid} \cup
                             {fts_row(mem.rowid, mem.content, mem.tags, mem.kind,
                                      mem.project)}],
                      mem),
                  found |-> TRUE, mem |-> mem]))

\* An update that leaves the links of the memory as they were.
update_memory_keeps_links(db, t, id, content, kind, tags, importance, expires_at) ==
    Let(index_of(db, id), LAMBDA i :
        IF i = 0 THEN [db |-> db, found |-> FALSE, mem |-> <<>>]
        ELSE Let([db.memories[i] EXCEPT
                     !.content = IF content.some THEN content.v ELSE @,
                     !.kind = IF kind # NoneStr THEN kind ELSE @,
                     !.tags = IF tags.some THEN tags.v ELSE @,
                     !.importance = clamp(IF importance.some THEN importance.v ELSE @),
                     !.expires_at = IF expires_at.some THEN expires_at ELSE @,
                     !.updated_at = t,
                     !.embedding = embed_text(IF content.some THEN content.v
                                              ELSE db.memories[i].content)], LAMBDA mem :
                 [db |-> [db EXCEPT
                         !.memories = SubSeq(@, 1, i - 1) \o SubSeq(@, i + 1, Len(@))
                                         \o <<mem>>,
                         !.memories_fts = {f \in @ : f.rowid # mem.rowid} \cup
                             {fts_row(mem.rowid, mem.content, mem.tags, mem.kind,
                                      mem.project)}],
                  found |-> TRUE, mem |-> mem]))

\* Database::update_memory_full.  content, tags and importance are options,
\* kind is NoneStr and expires_at is NoneSeq when the argument is absent.
update_memory_full(db, t, id, content, kind, tags, importance, expires_at) ==
    Let(index_of(db, id), LAMBDA i :
        IF i = 0 THEN [db |-> db, found |-> FALSE, mem |-> <<>>]
        ELSE Let([db.memories[i] EXCEPT
                     !.content = IF content.some THEN content.v ELSE @,
                     !.kind = IF kind # NoneStr THEN kind ELSE @,
                     !.tags = IF tags.some THEN tags.v ELSE @,
                     !.importance = clamp(IF importance.some THEN importance.v ELSE @),
                     !.expires_at = IF expires_at.some THEN expires_at ELSE @,
                     !.updated_at = t,
                     !.embedding = embed_text(IF content.some THEN content.v
                                              ELSE db.memories[i].content)], LAMBDA mem :
                 [db |-> rebuild_links(
                      [db EXCEPT
                         !.memories = SubSeq(@, 1, i - 1) \o SubSeq(@, i + 1, Len(@))
                                         \o <<mem>>,
                         !.memories_fts = {f \in @ : f.rowid # mem.rowid} \cup
                             {fts_row(mem.rowid, mem.content, mem.tags, mem.kind,
                                      mem.project)}],
                      mem),
                  found |-> TRUE, mem |-> mem]))

\* A merge that keeps only the tags of the new call.
merge_tags_replaces(merged, tags) == tags

\* Vec::contains / push of the merge path: the existing tags, then the new
\* tags that are not among them.
RECURSIVE merge_tags(_, _)
merge_tags(merged, tags) ==
    IF tags = <<>> THEN merged
    ELSE merge_tags(IF Head(tags) \in Range(merged) THEN merged
                    ELSE Append(merged, Head(tags)), Tail(tags))

\* Database::ensure_project
ensure_project(db, name) == [db EXCEPT !.projects = @ \cup {name}]

\* An add whose merge always stores the new content.
add_memory_takes_new_content(db, t, content, kind, project, tags, source, importance, expires_at) ==
    Let(find_duplicate(db, content, project), LAMBDA d :
        IF d # 0
        THEN Let(db.memories[d], LAMBDA existing :
             Let(update_memory_full(db, t, existing.id,
                     Some(content),
                     NoneStr, Some(merge_tags(existing.tags, tags)),
                     Some(Max2(importance, existing.importance)), expires_at),
                 LAMBDA updated :
                     [db |-> updated.db, mem |-> updated.mem, was_merged |-> TRUE]))
        ELSE Let([id |-> db.next_uuid, rowid |-> last_insert_rowid(db), content |-> content,
                  kind |-> kind, project |-> project, tags |-> tags, source |-> source,
                  importance |-> clamp(importance), expires_at |-> expires_at,
                  updated_at |-> t, last_accessed_at |-> NULL, access_count |-> 0,
                  embedding |-> embed_text(content)],
                 LAMBDA mem :
                     LET with_project(d1) == IF project # NoneStr
                                             THEN ensure_project(d1, project) ELSE d1
                     IN [db |-> rebuild_links(
                             with_project(
                                 [db EXCEPT
                                    !.memories = Append(@, mem),
                                    !.memories_fts = @ \cup
                                        {fts_row(mem.rowid, content, tags, kind, project)},
                                    !.next_uuid = @ + 1]),
                             mem),
                         mem |-> mem, was_merged |-> FALSE]))

\* Database::add_memory
add_memory(db, t, content, kind, project, tags, source, importance, expires_at) ==
    Let(find_duplicate(db, content, project), LAMBDA d :
        IF d # 0
        THEN Let(db.memories[d], LAMBDA existing :
             Let(update_memory_full(db, t, existing.id,
                     Some(IF str_len(content) > str_len(existing.content)
                          THEN content ELSE existing.content),
                     NoneStr, Some(merge_tags(existing.tags, tags)),
                     Some(Max2(importance, existing.importance)), expires_at),
                 LAMBDA updated :
                     [db |-> updated.db, mem |-> updated.mem, was_merged |-> TRUE]))
        ELSE Let([id |-> db.next_uuid, rowid |-> last_insert_rowid(db), content |-> content,
                  kind |-> kind, project |-> project, tags |-> tags, source |-> source,
                  importance |-> clamp(importance), expires_at |-> expires_at,
                  updated_at |-> t, last_accessed_at |-> NULL, access_count |-> 0,
                  embedding |-> embed_text(content)],
                 LAMBDA mem :
                     LET with_project(d1) == IF project # NoneStr
                                             THEN ensure_project(d1, project) ELSE d1
                     IN [db |-> rebuild_links(
                             with_project(
                                 [db EXCEPT
                                    !.memories = Append(@, mem),
                                    !.memories_fts = @ \cup
                                        {fts_row(mem.rowid, content, tags, kind, project)},
                                    !.next_uuid = @ + 1]),
                             mem),
                         mem |-> mem, was_merged |-> FALSE]))

\* A schema without ON DELETE CASCADE.
cascade_missing(db, gone) == db

\* ON DELETE CASCADE of memory_links and memory_entities (PRAGMA foreign_keys = ON).
cascade(db, gone) ==
    [db EXCEPT !.memory_links = {l \in @ : l.source_id \notin gone /\ l.target_id \notin gone},
               !.memory_entities = {e \in @ : e.memory_id \notin gone}]

\* A delete that leaves the row of the full-text index behind.
delete_memory_keeps_fts(db, id) ==
    Let(index_of(db, id), LAMBDA i :
        IF i = 0 THEN [db |-> db, deleted |-> FALSE]
        ELSE [db |-> cascade([db EXCEPT !.memories = SelectSeq(@, LAMBDA m : m.id # id)],
                             {id}),
              deleted |-> TRUE])

\* A delete that reports a row deleted when it found none.
delete_memory_reports_deleted(db, id) ==
    Let(index_of(db, id), LAMBDA i :
        IF i = 0 THEN [db |-> db, deleted |-> TRUE]
        ELSE [db |-> cascade([db EXCEPT
                                !.memories_fts = {f \in @ : f.rowid # db.memories[i].rowid},
                                !.memories = SelectSeq(@, LAMBDA m : m.id # id)],
                             {id}),
              deleted |-> TRUE])

\* Database::delete_memory
delete_memory(db, id) ==
    Let(index_of(db, id), LAMBDA i :
        IF i = 0 THEN [db |-> db, deleted |-> FALSE]
        ELSE [db |-> cascade([db EXCEPT
                                !.memories_fts = {f \in @ : f.rowid # db.memories[i].rowid},
                                !.memories = SelectSeq(@, LAMBDA m : m.id # id)],
                             {id}),
              deleted |-> TRUE])

\* Database::cleanup_expired
cleanup_expired(db, t) ==
    Let({i \in 1..Len(db.memories) : expired(db.memories[i], t)}, LAMBDA gone :
        [db |-> cascade([db EXCEPT
                           !.memories_fts =
                               {f \in @ : f.rowid \notin {db.memories[i].rowid : i \in gone}},
                           !.memories = SelectSeq(@, LAMBDA m : ~expired(m, t))],
                        {db.memories[i].id : i \in gone}),
         affected |-> Cardinality(gone)])

\* Database::list_memories: the sweep, then the rows of the filter, most
\* recently updated first, LIMIT limit OFFSET offset, and the total.
list_memories(db, t, project, kind, limit, offset) ==
    Let(cleanup_expired(db, t).db, LAMBDA db1 :
    Let(Reverse(SelectSeq(db1.memories, LAMBDA m :
            /\ (project # NoneStr => m.project = project)
            /\ (kind # NoneStr => m.kind = kind))), LAMBDA rows :
        [db |-> db1,
         memories |-> SubSeq(rows, offset + 1, Min2(Len(rows), offset + limit)),
         total |-> Len(rows)]))

\* The items a loop of get_project_brain pushes: it stops at the first item
\* that would take current_chars past max_chars.
RECURSIVE fit(_, _, _)
fit(lens, current_chars, max_chars) ==
    IF lens = <<>> \/ current_chars + Head(lens) > max_chars THEN 0
    ELSE 1 + fit(Tail(lens), current_chars + Head(lens), max_chars)

RECURSIVE chars_of(_, _)
chars_of(lens, n) == IF n = 0 THEN 0 ELSE Head(lens) + chars_of(Tail(lens), n - 1)

\* A loop that pushes every item, whatever the budget.
brain_push_all(items, lens, current_chars, max_chars) ==
    [pushed |-> items, current_chars |-> current_chars + chars_of(lens, Len(lens))]

\* One loop of get_project_brain over items of the lengths lens.
brain_push(items, lens, current_chars, max_chars) ==
    Let(fit(lens, current_chars, max_chars), LAMBDA n :
        [pushed |-> Take(items, n),
         current_chars |-> current_chars + chars_of(lens, n)])

\* SELECT DISTINCT entity_value FROM memory_entities e JOIN memories m ON
\* e.memory_id = m.id WHERE m.project = project AND e.entity_kind IN kinds
entity_values(db, project, kinds) ==
    {e.entity_value : e \in {x \in db.memory_entities :
        /\ x.entity_kind \in kinds
        /\ \E i \in 1..Len(db.memories) :
              db.memories[i].id = x.memory_id /\ db.memories[i].project = project}}

contents_of(rows) == [i \in 1..Len(rows) |-> rows[i].content]

content_lens(contents) == [i \in 1..Len(contents) |-> str_len(contents[i])]

value_lens(values) == [i \in 1..Len(values) |-> Len(values[i])]

\* updated_at > datetime('now','-7 days'), a comparison of texts: an RFC 3339
\* time of the day of the bound is greater than the bound, 'T' being greater
\* than ' '.
updated_this_week(m, t) == m.updated_at \div TicksPerDay >= (t \div TicksPerDay) - 7

DEFAULT_MAX_TOKENS == 1500

\* Database::get_project_brain.  tech_order and comp_order are the orders in
\* which SQLite yields the distinct entity values; max_tokens is below 2^62.
get_project_brain(db, t, project, max_tokens, tech_order, comp_order) ==
    Let((IF max_tokens.some THEN max_tokens.v ELSE DEFAULT_MAX_TOKENS) * 4, LAMBDA max_chars :
    Let(brain_push(Take(tech_order, 15), value_lens(Take(tech_order, 15)), 0, max_chars),
        LAMBDA tech :
    Let(list_memories(db, t, project, "architecture", 10, 0), LAMBDA core_arch :
    Let(brain_push(contents_of(core_arch.memories),
                   content_lens(contents_of(core_arch.memories)),
                   tech.current_chars, max_chars), LAMBDA arch :
    Let(list_memories(core_arch.db, t, project, "decision", 10, 0), LAMBDA decisions :
    Let(brain_push(contents_of(decisions.memories),
                   content_lens(contents_of(decisions.memories)),
                   arch.current_chars, max_chars), LAMBDA dec :
    Let(list_memories(decisions.db, t, project, "bug", 10, 0), LAMBDA bugs :
    Let(brain_push(contents_of(bugs.memories),
                   content_lens(contents_of(bugs.memories)),
                   dec.current_chars, max_chars), LAMBDA bug :
    Let(contents_of(Take(Reverse(SelectSeq(bugs.db.memories, LAMBDA m :
            m.project = project /\ updated_this_week(m, t))), 10)), LAMBDA recent_rows :
    Let(brain_push(recent_rows, content_lens(recent_rows), bug.current_chars, max_chars),
        LAMBDA recent :
    Let(brain_push(Take(comp_order, 15), value_lens(Take(comp_order, 15)),
                   recent.current_chars, max_chars), LAMBDA comp :
        [db |-> bugs.db,
         brain |-> [project |-> project,
                    tech_stack |-> tech.pushed,
                    core_architecture |-> arch.pushed,
                    current_critical_decisions |-> dec.pushed,
                    active_bugs_known |-> bug.pushed,
                    recent_changes |-> recent.pushed,
                    key_components |-> comp.pushed,
                    approx_tokens_used |-> comp.current_chars \div 4]])))))))))))

\* ------------------------------------------------------------------ search
\* str::starts_with over the vocabulary: the FTS5 prefix term "q"* matches a
\* token that is q or that q begins.
has_prefix(lw, q) ==
    \/ q = lw
    \/ lw = "stripe" /\ q = "str"

\* The tokens the unicode61 tokenizer indexes for a row of memories_fts: the
\* lower-cased words of content, tags, kind and project.
fts_tokens(f) ==
    {to_lowercase(f.content[i].w) : i \in 1..Len(f.content)}
    \cup {to_lowercase(f.tags[i]) : i \in 1..Len(f.tags)}
    \cup {f.kind}
    \cup (IF f.project = "" THEN {} ELSE {to_lowercase(f.project)})

\* memories_fts MATCH fts_terms: every term of the query begins a token.
fts_match(f, query) ==
    \A k \in 1..Len(query) : \E tok \in fts_tokens(f) : has_prefix(tok, to_lowercase(query[k]))

RRF_K == 60
MISSING_RANK == 1000

\* The rank of id in an order of ids, 1000 when the order does not hold it.
rank_in(order, id) ==
    IF \E i \in 1..Len(order) : order[i] = id
    THEN CHOOSE i \in 1..Len(order) : order[i] = id
    ELSE MISSING_RANK

\* embedding::rrf_score, as the fraction num / den.
rrf_score(bm25_rank, vector_rank) ==
    [num |-> (RRF_K + vector_rank) + (RRF_K + bm25_rank),
     den |-> (RRF_K + bm25_rank) * (RRF_K + vector_rank)]

\* score *= n / d
times(score, n, d) == [num |-> score.num * n, den |-> score.den * d]

\* a / b < c / d for a, c >= 0 and b, d > 0, by the integer parts and then the
\* inverted remainders (no product that could leave 32 bits).
RECURSIVE frac_lt(_, _, _, _)
frac_lt(a, b, c, d) ==
    IF a \div b # c \div d THEN a \div b < c \div d
    ELSE IF c % d = 0 THEN FALSE
    ELSE IF a % b = 0 THEN TRUE
    ELSE frac_lt(d, c % d, b, a % b)

\* f64 partial_cmp on two scores: x < y.
score_lt(x, y) ==
    IF x.num < 0 /\ y.num >= 0 THEN TRUE
    ELSE IF x.num >= 0 /\ y.num < 0 THEN FALSE
    ELSE IF x.num < 0 THEN frac_lt(0 - y.num, y.den, 0 - x.num, x.den)
    ELSE frac_lt(x.num, x.den, y.num, y.den)

score_eq(x, y) == ~score_lt(x, y) /\ ~score_lt(y, x)

\* The next decimal digits of r / d (0 <= r < d), with the rest.
RECURSIVE digits(_, _, _, _)
digits(acc, r, d, n) ==
    IF n = 0 THEN [v |-> acc, r |-> r]
    ELSE digits(acc * 10 + (r * 10) \div d, (r * 10) % d, d, n - 1)

\* (score * 10000.0).round(), half away from zero: the score a result shows,
\* in ten-thousandths.
round4(score) ==
    LET a == IF score.num < 0 THEN 0 - score.num ELSE score.num
        f == digits(a \div score.den, a % score.den, score.den, 4)
        m == f.v + (IF 2 * f.r >= score.den THEN 1 ELSE 0)
    IN IF score.num < 0 THEN 0 - m ELSE m

\* The boost of one incoming link, in twentieths.
link_boost(relation) ==
    CASE relation = "deprecates" -> -18
      [] relation \in {"depends_on", "implements", "resolves"} -> 2
      [] OTHER -> 1

RECURSIVE sum_boosts(_)
sum_boosts(links) ==
    IF links = {} THEN 0
    ELSE Let(CHOOSE l \in links : TRUE, LAMBDA l :
             link_boost(l.relation_type) + sum_boosts(links \ {l}))

\* A memory's content holds a watcher keyword (str::contains on the
\* lower-cased content; a keyword is alphanumeric).
contains_keyword(content, w) == find_word(content, to_lowercase(w)) # NULL

\* keywords.iter().filter(..).count()
match_count(content, keywords) ==
    Cardinality({i \in 1..Len(keywords) : contains_keyword(content, keywords[i])})

\* The memory carries one of the filter tags, compared in lower case.
tag_match(mem, filter_tags) ==
    \E i \in 1..Len(mem.tags), j \in 1..Len(filter_tags) :
        to_lowercase(mem.tags[i]) = to_lowercase(filter_tags[j])

\* The fused score of one candidate of Database::search.
fused_score(mem, bm25_rank, vec_rank, links, tags, watcher_keywords) ==
    Let(times(rrf_score(bm25_rank, vec_rank), mem.importance, 3), LAMBDA s1 :
    Let({l \in links : l.target_id = mem.id}, LAMBDA incoming :
    Let(IF incoming = {} THEN s1 ELSE times(s1, 20 + sum_boosts(incoming), 20), LAMBDA s2 :
    Let(IF watcher_keywords.some /\ match_count(mem.content, watcher_keywords.v) > 0
        THEN times(s2, 5 + match_count(mem.content, watcher_keywords.v), 5)
        ELSE s2, LAMBDA s3 :
        IF ~tags.some THEN s3
        ELSE IF tag_match(mem, tags.v) THEN times(s3, 3, 2)
        ELSE times(s3, 1, 10)))))

\* The candidates of a search, by id: the rows of the vector scan, which are
\* all rows of the project and kind filter.
all_memories(db, project, kind) ==
    {db.memories[i].id : i \in {j \in 1..Len(db.memories) :
        /\ (project # NoneStr => db.memories[j].project = project)
        /\ (kind # NoneStr => db.memories[j].kind = kind)}}

\* The ids of the rows of the BM25 query.
bm25_results(db, query, project, kind) ==
    {db.memories[i].id : i \in {j \in 1..Len(db.memories) :
        /\ (project # NoneStr => db.memories[j].project = project)
        /\ (kind # NoneStr => db.memories[j].kind = kind)
        /\ \E f \in db.memories_fts :
              f.rowid = db.memories[j].rowid /\ fts_match(f, query)}}

RANK_LIMIT == 100

\* The rows of the BM25 query in the order of their BM25 score, LIMIT 100.
bm25_ranked(db, query, project, kind, bm25_order) ==
    Once(bm25_results(db, query, project, kind), LAMBDA hits :
        Take(SelectSeq(bm25_order, LAMBDA id : id \in hits), RANK_LIMIT))

\* vector_results: the rows of the vector scan in the order of their cosine,
\* of which the first 100 get a rank.
vector_results(db, project, kind, vec_order) ==
    Once(all_memories(db, project, kind), LAMBDA cands :
        Take(SelectSeq(vec_order, LAMBDA id : id \in cands), RANK_LIMIT))

\* The score of every candidate.  BM25 and the cosine of the embeddings are
\* not computed: bm25_order and vec_order are the orders they put the rows
\* in, any permutations of the ids.
rrf_scores(db, query, project, kind, tags, watcher_keywords, bm25_order, vec_order) ==
    Once(all_memories(db, project, kind), LAMBDA cands :
    Once(bm25_ranked(db, query, project, kind, bm25_order), LAMBDA by_bm25 :
    Once(vector_results(db, project, kind, vec_order), LAMBDA by_cosine :
        [id \in cands |->
            fused_score(db.memories[index_of(db, id)], rank_in(by_bm25, id),
                        rank_in(by_cosine, id), db.memory_links, tags,
                        watcher_keywords)])))

\* A sort that leaves the candidates in the order it found them.
sort_by_missing(order, scores) == order

\* rrf_scores.sort_by(|a, b| b.1.partial_cmp(&a.1)): a stable sort of the
\* candidates, highest score first.
sort_by(order, scores) ==
    Once(collect([i \in 1..Len(order) |-> scores[order[i]]]), LAMBDA s :
    Once(collect([i \in 1..Len(order) |->
            Cardinality({j \in 1..Len(order) :
                \/ score_lt(s[i], s[j])
                \/ score_eq(s[i], s[j]) /\ j < i})]), LAMBDA before :
        [k \in 1..Len(order) |-> order[CHOOSE i \in 1..Len(order) : before[i] = k - 1]]))

\* A read that counts the access and keeps the time of the last one.
record_access_keeps_time(m, t) == [m EXCEPT !.access_count = @ + 1]

\* UPDATE memories SET access_count = access_count + 1, last_accessed_at = now
record_access(m, t) == [m EXCEPT !.access_count = @ + 1, !.last_accessed_at = t]

\* Database::search.  query is the sequence of the query's words, tags and
\* watcher_keywords are options; iter_order is the order in which the HashMap
\* all_memories hands out the candidates.
search(db, t, query, limit, project, kind, tags, watcher_keywords, bm25_order, vec_order, iter_order) ==
    IF query = <<>> THEN [db |-> db, lexical |-> {}, vector |-> {}, results |-> <<>>,
                          scores |-> <<>>]
    ELSE Once(cleanup_expired(db, t).db, LAMBDA db1 :
         Once(rrf_scores(db1, query, project, kind, tags, watcher_keywords, bm25_order,
                        vec_order), LAMBDA scores :
         Once(Take(sort_by(SelectSeq(iter_order, LAMBDA id : id \in DOMAIN scores), scores),
                  limit), LAMBDA taken :
             [db |-> [db1 EXCEPT !.memories =
                         [i \in 1..Len(@) |->
                             IF @[i].id \in Range(taken) THEN record_access(@[i], t)
                             ELSE @[i]]],
              lexical |-> Range(bm25_ranked(db1, query, project, kind, bm25_order)),
              vector |-> Range(vector_results(db1, project, kind, vec_order)),
              results |-> [k \in 1..Len(taken) |-> db1.memories[index_of(db1, taken[k])]],
              scores |-> [k \in 1..Len(taken) |-> round4(scores[taken[k]])]])))

\* Database::add_memories_bulk, an item is [content, kind, project, tags,
\* source, importance, expires_at]; importance is an option.
RECURSIVE add_memories_bulk(_, _, _)
add_memories_bulk(db, t, items) ==
    IF items = <<>> THEN [db |-> db, added |-> <<>>, merged |-> 0, skipped |-> 0]
    ELSE IF Len(items) = 1
    THEN Once(Head(items), LAMBDA item :
         IF trim_is_empty(item.content)
         THEN [db |-> db, added |-> <<>>, merged |-> 0, skipped |-> 1]
         ELSE Once(add_memory(db, t, item.content, item.kind, item.project, item.tags,
                             item.source,
                             IF item.importance.some THEN item.importance.v
                             ELSE DEFAULT_IMPORTANCE,
                             item.expires_at), LAMBDA r :
              [db |-> r.db,
               added |-> IF r.was_merged THEN <<>> ELSE <<r.mem>>,
               merged |-> IF r.was_merged THEN 1 ELSE 0,
               skipped |-> 0]))
    ELSE Once(add_memories_bulk(db, t, SubSeq(items, 1, Len(items) \div 2)), LAMBDA first :
         Once(add_memories_bulk(first.db, t,
                               SubSeq(items, Len(items) \div 2 + 1, Len(items))),
             LAMBDA rest :
             [db |-> rest.db,
              added |-> first.added \o rest.added,
              merged |-> first.merged + rest.merged,
              skipped |-> first.skipped + rest.skipped]))

\* parse_v1_memory: the kind of a v1 record in the v2 vocabulary.
parse_v1_kind(k) ==
    CASE k = NoneStr -> "fact"
      [] k = "context" -> "fact"
      [] k = "architecture" -> "decision"
      [] k \in {"component", "workflow"} -> "pattern"
      [] OTHER -> k

\* Database::import_batch, a record is [content, kind, project, tags, source]
\* as parse_v1_memory pushed it.
RECURSIVE import_batch(_, _, _)
import_batch(db, t, batch) ==
    IF batch = <<>> THEN [db |-> db, count |-> 0]
    ELSE Let(Head(batch), LAMBDA r :
             IF \E i \in 1..Len(db.memories) : db.memories[i].content = r.content
             THEN import_batch(db, t, Tail(batch))
             ELSE Let(import_batch(
                          [db EXCEPT
                             !.memories = Append(@,
                                 [id |-> db.next_uuid, rowid |-> last_insert_rowid(db),
                                  content |-> r.content, kind |-> r.kind,
                                  project |-> r.project, tags |-> r.tags,
                                  source |-> r.source, importance |-> DEFAULT_IMPORTANCE,
                                  expires_at |-> NoneSeq, updated_at |-> t,
                                  last_accessed_at |-> NULL, access_count |-> 0,
                                  embedding |-> embed_text(r.content)]),
                             !.memories_fts = @ \cup
                                 {fts_row(last_insert_rowid(db), r.content, r.tags, r.kind,
                                          r.project)},
                             !.next_uuid = @ + 1,
                             !.projects = IF r.project # NoneStr THEN @ \cup {r.project}
                                          ELSE @],
                          t, Tail(batch)),
                      LAMBDA rest : [rest EXCEPT !.count = @ + 1]))

\* ---------------------------------------------------------------------- gc
\* gc::is_stopword
is_stopword(word) ==
    word \in {"the", "this", "that", "with", "from", "have", "been", "will",
              "should", "would", "could", "when", "where", "what", "which",
              "their", "there", "they", "them", "then", "than", "these",
              "those", "into", "some", "such", "also", "does",
              "done", "each", "just", "like", "make", "made", "more",
              "most", "much", "need", "only", "over", "very", "well",
              "about", "after", "again", "being", "other", "using",
              "dans", "pour", "avec", "cette", "sont", "mais", "plus",
              "tout", "tous", "toute", "comme", "faire", "fait", "peut",
              "sans", "encore", "entre", "aussi", "autre", "avant"}

\* usize::to_string for the sizes of a merge group.
to_string(n) ==
    CASE n = 2 -> "2" [] n = 3 -> "3" [] n = 4 -> "4" [] n = 5 -> "5" [] n = 6 -> "6"
      [] n = 7 -> "7" [] n = 8 -> "8" [] n = 9 -> "9" [] n = 10 -> "10"
      [] OTHER -> "n"

\* The keywords of one content: its words, trimmed and lower-cased, longer
\* than three bytes, no stopwords.
keywords(c) ==
    {to_lowercase(c[i].w) : i \in {j \in 1..Len(c) :
        Len(c[j].w) > 3 /\ ~is_stopword(to_lowercase(c[j].w))}}

\* The keys of `keys` in the order of `hash_order`, the most frequent first;
\* among equally frequent keys the (arbitrary) iteration order of the HashMap
\* decides, the sort is stable.
RECURSIVE sort_by_freq(_, _, _)
sort_by_freq(keys, freq, hash_order) ==
    IF keys = {} THEN <<>>
    ELSE LET pos(k) == IF k \in Range(hash_order)
                       THEN CHOOSE i \in 1..Len(hash_order) : hash_order[i] = k
                       ELSE Len(hash_order) + 1
         IN Let({k \in keys : \A o \in keys : freq[k] >= freq[o]}, LAMBDA top :
            Let(CHOOSE k \in top : \A o \in top : pos(k) <= pos(o), LAMBDA first :
                <<first>> \o sort_by_freq(keys \ {first}, freq, hash_order)))

\* The longest run of leading tokens of c within n bytes.
RECURSIVE fitting_prefix(_, _)
fitting_prefix(c, n) ==
    IF str_len(c) <= n THEN c ELSE fitting_prefix(SubSeq(c, 1, Len(c) - 1), n)

\* The first sentence of a content, or its first BULLET_MAX_CHARS bytes: up to
\* the first full stop that a space follows.  The contents of the model carry
\* no leading or trailing whitespace (trim changes nothing) and those without
\* ". " are shorter than BULLET_MAX_CHARS, a longer one is cut at a token.
first_sentence(c) ==
    Let({i \in 1..(Len(c) - 1) : c[i].post = "." /\ c[i + 1] # Tok("-", "", "")},
        LAMBDA stops :
            IF stops = {} THEN fitting_prefix(c, BULLET_MAX_CHARS)
            ELSE SubSeq(c, 1, CHOOSE i \in stops : \A j \in stops : i <= j))

RECURSIVE concat(_)
concat(ss) == IF ss = <<>> THEN <<>> ELSE Head(ss) \o concat(Tail(ss))

\* The kind_label of gc::merge_memories.
kind_label(kind) ==
    CASE kind = "bug" -> <<Wd("Bugs")>>
      [] kind = "snippet" -> <<Wd("Code"), Wd("snippets")>>
      [] kind = "note" -> <<Wd("Notes")>>
      [] kind = "todo" -> <<Wd("TODOs")>>
      [] OTHER -> <<Wd("Items")>>

\* gc::merge_memories.  hash_order is the iteration order of the word_freq map.
merge_memories(contents, kind, project, hash_order) ==
    IF Len(contents) = 1 THEN contents[1]
    ELSE
    Let(UNION {keywords(contents[i]) : i \in 1..Len(contents)}, LAMBDA keys :
    Let(Take(sort_by_freq(keys,
                 [k \in keys |->
                     Cardinality({i \in 1..Len(contents) : k \in keywords(contents[i])})],
                 hash_order),
             SUBJECT_WORDS), LAMBDA subject :
    Let(Take(SelectSeq([i \in 1..Len(contents) |->
                           <<Tok("-", "", "")>> \o first_sentence(contents[i])],
                       LAMBDA b : str_len(Tail(b)) > 5),
             MAX_BULLETS), LAMBDA bullets :
        (IF project = NoneStr THEN <<>> ELSE <<Tok("[", project, "]")>>)
        \o <<Tok("[", "MERGED", "]")>>
        \o kind_label(kind)
        \o <<Wd("related"), Tok("", "to", ":")>>
        \o (IF subject = <<>> THEN <<Tok("", "", ".")>>
            ELSE [i \in 1..Len(subject) |->
                     Tok("", subject[i], IF i = Len(subject) THEN "." ELSE ",")])
        \o <<Tok("(", to_string(Len(contents)), ""), Wd("items"), Tok("", "compressed", ")")>>
        \o (IF bullets = <<>> THEN <<Tok("", "", "")>> ELSE concat(bullets)))))

\* The kind weight of gc::gc_score, in tenths.
kind_weight(kind) ==
    CASE kind = "todo" -> 12 [] kind = "bug" -> 10 [] kind = "note" -> 9
      [] kind = "snippet" -> 6 [] kind = "decision" -> 3 [] kind = "preference" -> 2
      [] kind = "pattern" -> 2 [] kind = "fact" -> 4 [] kind = "credential" -> 1
      [] OTHER -> 5

\* gc::gc_score(importance, age_days, kind) times 7300, in exact arithmetic.
gc_score(importance, age_days, kind) ==
    Min2(730 * (5 - importance) + 6 * Min2(age_days, 365) + 219 * kind_weight(kind), 7300)

\* score > 0.6 as the f64 arithmetic of gc_score decides it: it agrees with
\* the exact comparison but where the exact score is 0.6 at importance 2, where
\* 0.75 * 0.4 + .. rounds to 0.6000000000000001.
score_exceeds(importance, age_days, kind) ==
    Let(gc_score(importance, age_days, kind), LAMBDA s :
        s > 4380 \/ (s = 4380 /\ importance = 2))

\* (now - updated_at).num_days()
num_days(t, updated_at) == (t - updated_at) \div TicksPerDay

\* A candidate test that leaves out the score.
eligible_without_score(m, t, kind, config) ==
    /\ m.importance < config.importance_threshold
    /\ num_days(t, m.updated_at) >= config.age_days

\* The condition of run_gc under which a row joins the bucket of its project.
eligible(m, t, kind, config) ==
    /\ score_exceeds(m.importance, num_days(t, m.updated_at), kind)
    /\ m.importance < config.importance_threshold
    /\ num_days(t, m.updated_at) >= config.age_days

\* GcConfig::default
default_config ==
    [age_days |-> DEFAULT_AGE_DAYS, importance_threshold |-> DEFAULT_IMPORTANCE_THRESHOLD,
     max_merge_group |-> DEFAULT_MAX_MERGE_GROUP, compressible_kinds |-> compressible_kinds]

\* The deletions of one merged group, in the order of ids_to_delete.
RECURSIVE delete_all(_, _)
delete_all(db, ids) ==
    IF ids = <<>> THEN db ELSE delete_all(delete_memory(db, Head(ids)).db, Tail(ids))

\* run_gc, the loop over the buckets of one kind.  by_project maps a project to
\* the eligible rows read before the loop, buckets is the iteration order of
\* the map.  st is [db, groups_merged, memories_compressed, groups]; groups
\* records the groups found: kind, project, ids, contents, merged_content.
RECURSIVE merge_buckets(_, _, _, _, _, _, _, _)
merge_buckets(st, t, kind, config, dry_run, by_project, buckets, hash_order) ==
    IF buckets = <<>> THEN st
    ELSE
    Let(Head(buckets), LAMBDA proj :
    Let(Take(by_project[proj], config.max_merge_group), LAMBDA items :
    Let(merge_memories([i \in 1..Len(items) |-> items[i].content], kind, proj, hash_order),
        LAMBDA merged_content :
    Let([i \in 1..Len(items) |-> items[i].id], LAMBDA ids_to_delete :
        merge_buckets(
            IF Len(by_project[proj]) > 1
            THEN [db |-> IF dry_run THEN st.db
                         ELSE delete_all(
                                  add_memory(st.db, t, merged_content, kind, proj,
                                             <<"merged">>, "gc_compressor", GC_IMPORTANCE,
                                             NoneSeq).db,
                                  ids_to_delete),
                  groups_merged |-> st.groups_merged + 1,
                  memories_compressed |-> st.memories_compressed + Len(ids_to_delete),
                  groups |-> Append(st.groups,
                                [kind |-> kind, project |-> proj, ids |-> ids_to_delete,
                                 contents |-> [i \in 1..Len(items) |-> items[i].content],
                                 merged_content |-> merged_content])]
            ELSE st,
            t, kind, config, dry_run, by_project, Tail(buckets), hash_order)))))

\* run_gc, the loop over the compressible kinds.  bucket_order is the order in
\* which a HashMap of buckets hands out the projects.
RECURSIVE merge_kinds(_, _, _, _, _, _, _)
merge_kinds(st, t, kinds, config, dry_run, bucket_order, hash_order) ==
    IF kinds = <<>> THEN st
    ELSE
    Let(Head(kinds), LAMBDA kind :
    Let(SelectSeq(rows_by_rowid(st.db.memories),
                  LAMBDA m : m.kind = kind /\ eligible(m, t, kind, config)), LAMBDA rows :
    Let({rows[i].project : i \in 1..Len(rows)}, LAMBDA keys :
        merge_kinds(
            merge_buckets(st, t, kind, config, dry_run,
                          [p \in keys |-> SelectSeq(rows, LAMBDA m : m.project = p)],
                          SelectSeq(bucket_order, LAMBDA p : p \in keys), hash_order),
            t, Tail(kinds), config, dry_run, bucket_order, hash_order))))

\* Database::run_gc.  The report leaves out the two file sizes.
run_gc(db, t, config, dry_run, bucket_order, hash_order) ==
    Let(cleanup_expired(db, t), LAMBDA swept_db :
    Let(merge_kinds([db |-> IF dry_run THEN db ELSE swept_db.db, groups_merged |-> 0,
                     memories_compressed |-> 0, groups |-> <<>>],
                    t, config.compressible_kinds, config, dry_run, bucket_order,
                    hash_order), LAMBDA st :
    Let({e \in st.db.memory_entities : e.memory_id \notin ids_of(st.db)},
        LAMBDA orphan_entities :
    Let({l \in st.db.memory_links :
            l.source_id \notin ids_of(st.db) \/ l.target_id \notin ids_of(st.db)},
        LAMBDA orphan_links :
        [db |-> IF dry_run THEN st.db
                ELSE [st.db EXCEPT !.memory_entities = @ \ orphan_entities,
                                   !.memory_links = @ \ orphan_links],
         groups |-> st.groups,
         report |-> [expired_removed |-> IF dry_run THEN 0 ELSE swept_db.affected,
                     groups_merged |-> st.groups_merged,
                     memories_compressed |-> st.memories_compressed,
                     orphan_links_removed |->
                         IF dry_run THEN 0
                         ELSE Cardinality(orphan_entities) + Cardinality(orphan_links)]]))))

\* ----------------------------------------------------------------- watcher
\* A path is [dir, name]: the directory of the file below the watched
\* directory and the characters of the file name.  A change is a FileChange:
\* [path, filename, timestamp].
WATCHER_CAPACITY == 20

UPPERCASE == {"A", "B", "C", "D", "E", "F", "G", "H", "I", "J", "K", "L", "M",
              "N", "O", "P", "Q", "R", "S", "T", "U", "V", "W", "X", "Y", "Z"}

LOWERCASE == {"a", "b", "c", "d", "e", "f", "g", "h", "i", "j", "k", "l", "m",
              "n", "o", "p", "q", "r", "s", "t", "u", "v", "w", "x", "y", "z"}

DIGITS == {"0", "1", "2", "3", "4", "5", "6", "7", "8", "9"}

\* char::is_uppercase, char::is_alphanumeric
is_uppercase(ch) == ch \in UPPERCASE

is_alphanumeric(ch) == ch \in UPPERCASE \cup LOWERCASE \cup DIGITS

WATCHED_EXTENSIONS ==
    {<<"r", "s">>, <<"t", "s">>, <<"s", "v", "e", "l", "t", "e">>, <<"p", "y">>,
     <<"j", "s">>, <<"g", "o">>, <<"t", "s", "x">>, <<"j", "s", "x">>, <<"m", "d">>}

\* The directories of the model's vocabulary whose name begins with '.'.
hidden_dir(dir) == dir \in {".git", ".svelte-kit"}

\* path_str.contains("/.") || contains("/node_modules/") || contains("/target/")
skipped_path(path) ==
    \/ hidden_dir(path.dir)
    \/ path.name # <<>> /\ Head(path.name) = "."
    \/ path.dir = "node_modules"
    \/ path.dir = "target"

\* Path::extension: the characters after the last '.' of the file name, None
\* when the name has no '.' or only the one it begins with.
extension(name) ==
    IF \A i \in 2..Len(name) : name[i] # "." THEN NoneSeq
    ELSE Some(SubSeq(name, 1 + CHOOSE k \in 2..Len(name) :
                              name[k] = "." /\ \A j \in (k + 1)..Len(name) : name[j] # ".",
                     Len(name)))

\* filename.split('.').next(): the characters before the first '.'.
RECURSIVE first_part(_)
first_part(name) ==
    IF name = <<>> \/ Head(name) = "." THEN <<>>
    ELSE <<Head(name)>> \o first_part(Tail(name))

\* The loop of get_boost_keywords over the characters of a stem: the words
\* pushed, current_word the word being read.
RECURSIVE scan(_, _, _)
scan(stem, current_word, words) ==
    IF stem = <<>>
    THEN IF current_word # <<>> THEN Append(words, current_word) ELSE words
    ELSE IF is_alphanumeric(Head(stem))
    THEN IF is_uppercase(Head(stem)) /\ current_word # <<>>
         THEN scan(Tail(stem), <<Head(stem)>>, Append(words, current_word))
         ELSE scan(Tail(stem), Append(current_word, Head(stem)), words)
    ELSE IF current_word # <<>>
    THEN scan(Tail(stem), <<>>, Append(words, current_word))
    ELSE scan(Tail(stem), <<>>, words)

\* The String of a word of characters, for the words of the model's file names.
string_of(chars) ==
    CASE Len(chars) = 1 -> chars[1]
      [] chars = <<"S", "t", "r", "i", "p", "e">> -> "Stripe"
      [] chars = <<"s", "t", "r", "i", "p", "e">> -> "stripe"
      [] chars = <<"M", "y">> -> "My"
      [] chars = <<"m", "y">> -> "my"
      [] chars = <<"W", "i", "d", "g", "e", "t">> -> "Widget"
      [] chars = <<"M", "a", "k", "e", "f", "i", "l", "e">> -> "Makefile"
      [] chars = <<"j", "w", "t">> -> "jwt"
      [] chars = <<"f", "i", "x">> -> "fix"
      [] chars = <<"A", "P", "I">> -> "API"
      [] OTHER -> "?"

\* A queue that never evicts.
push_unbounded(changes, change) == changes \o <<change>>

\* FileWatcherState::push
push(changes, change) ==
    (IF Len(changes) >= WATCHER_CAPACITY THEN Tail(changes) ELSE changes) \o <<change>>

\* FileWatcherState::get_boost_keywords: the words of the stems of the recent
\* file names, in order, repeated as often as they occur.
RECURSIVE get_boost_keywords(_)
get_boost_keywords(changes) ==
    IF changes = <<>> THEN <<>>
    ELSE Let(scan(first_part(Head(changes).filename), <<>>, <<>>), LAMBDA words :
             [i \in 1..Len(words) |-> string_of(words[i])])
         \o get_boost_keywords(Tail(changes))

\* The paths of an event that the watcher thread records.
recorded(path) ==
    /\ ~skipped_path(path)
    /\ path.name # <<>>
    /\ (extension(path.name).some => extension(path.name).v \in WATCHED_EXTENSIONS)

\* FileChange { path, filename, timestamp }
file_change(path, t) == [path |-> path, filename |-> path.name, timestamp |-> t]

\* The loop of the watcher thread over the paths of one event, at time t.
RECURSIVE push_all(_, _, _)
push_all(changes, paths, t) ==
    IF paths = <<>> THEN changes
    ELSE push_all(IF recorded(Head(paths))
                  THEN push(changes, file_change(Head(paths), t))
                  ELSE changes,
                  Tail(paths), t)

\* ----------------------------------------------------------- tool handlers
NoReport == [expired_removed |-> 0, groups_merged |-> 0, memories_compressed |-> 0,
             orphan_links_removed |-> 0]

\* The record of a tool call: the arguments and the response that the
\* properties read; results are the ids of the rows returned.  first holds,
\* for an add that repeats the content and the project of the add call just
\* before it, that call's id, flag, tags and importance; old_expires_at the
\* expiry an update found.
NoFirst == [id |-> 0, merged |-> FALSE, tags |-> <<>>, importance |-> 0]

\* The context of a response that holds none.
NoContext ==
    [project |-> NoneStr, project_memories |-> 0, global_preferences |-> 0,
     global_patterns |-> 0,
     items |-> [project |-> <<>>, preferences |-> <<>>, patterns |-> <<>>,
                snippets |-> <<>>]]

\* The arguments of an update_memory call that supplies no field.
NoFields ==
    [content |-> NoneSeq, kind |-> NoneStr, tags |-> NoneSeq, importance |-> NoneInt,
     expires_at |-> NoneSeq]

\* The brain of a response that holds none.
NoBrain ==
    [project |-> NoneStr, tech_stack |-> <<>>, core_architecture |-> <<>>,
     current_critical_decisions |-> <<>>, active_bugs_known |-> <<>>,
     recent_changes |-> <<>>, key_components |-> <<>>, approx_tokens_used |-> 0]

NoCall ==
    [op |-> "none", ok |-> TRUE, id |-> 0, merged |-> FALSE, repeat |-> FALSE,
     first |-> NoFirst, content |-> <<>>, kind |-> NoneStr, project |-> NoneStr,
     tags |-> <<>>, importance |-> 0, expires_at |-> NoneSeq, old_expires_at |-> NoneSeq,
     results |-> <<>>, scores |-> <<>>, query |-> <<>>, limit |-> 0,
     filter_tags |-> NoneSeq, watcher_keywords |-> NoneSeq,
     time |-> 0, count |-> 0, dry_run |-> FALSE,
     age_days |-> 0, importance_threshold |-> 0, report |-> NoReport, groups |-> <<>>,
     max_tokens |-> NoneInt, brain |-> NoBrain, lexical |-> {}, vector |-> {},
     supplied |-> NoFields, context |-> NoContext]

\* The ids of the rows of a response, in its order.
ids_in(rows) == [i \in 1..Len(rows) |-> rows[i].id]

\* The tables after a call.
Commit(db) ==
    /\ memories' = db.memories
    /\ memories_fts' = db.memories_fts
    /\ memory_links' = db.memory_links
    /\ memory_entities' = db.memory_entities
    /\ projects' = db.projects
    /\ next_uuid' = db.next_uuid

tables == <<memories, memories_fts, memory_links, memory_entities, projects, next_uuid>>

\* tool_error: the call answers with an error and changes nothing.
tool_error(op) ==
    /\ last' = [NoCall EXCEPT !.op = op, !.ok = FALSE]
    /\ UNCHANGED <<now, tables>>

\* Time passes.
Tick ==
    /\ now < MaxClock
    /\ now' = now + 1
    /\ UNCHANGED <<tables, last>>

\* tools::handle_add.  kind, source are NoneStr and importance is NoneInt when
\* the argument is absent.
handle_add(content, kind, project, tags, source, importance, expires_at) ==
    LET k == IF kind = NoneStr THEN "fact" ELSE kind
        imp == IF importance.some THEN importance.v ELSE DEFAULT_IMPORTANCE
        repeat == /\ last.op = "add_memory" /\ last.ok
                  /\ last.content = content /\ last.project = project
    IN IF trim_is_empty(content) \/ k \notin VALID_KINDS
       THEN tool_error("add_memory")
       ELSE \E r \in {add_memory(DB, now, content, k, project, tags,
                                 IF source = NoneStr THEN "cursor" ELSE source,
                                 imp, expires_at)} :
            /\ Commit(r.db)
            /\ last' = [NoCall EXCEPT
                          !.op = "add_memory", !.id = r.mem.id, !.merged = r.was_merged,
                          !.repeat = repeat,
                          !.first = IF repeat
                                    THEN [id |-> last.id, merged |-> last.merged,
                                          tags |-> last.tags, importance |-> last.importance]
                                    ELSE NoFirst,
                          !.content = content, !.kind = k, !.project = project,
                          !.tags = tags, !.importance = imp, !.expires_at = expires_at]
            /\ UNCHANGED now

\* tools::handle_add_bulk
handle_add_bulk(items) ==
    IF items = <<>> THEN tool_error("add_memories")
    ELSE \E r \in {add_memories_bulk(DB, now, items)} :
         /\ Commit(r.db)
         /\ last' = [NoCall EXCEPT !.op = "add_memories", !.count = Len(r.added)]
         /\ UNCHANGED now

\* tools::handle_get
handle_get(id) ==
    /\ last' = [NoCall EXCEPT !.op = "get_memory", !.ok = (index_of(DB, id) # 0), !.id = id,
                   !.results = IF index_of(DB, id) # 0 THEN <<id>> ELSE <<>>]
    /\ UNCHANGED <<now, tables>>

\* tools::handle_update
handle_update(id, content, kind, tags, importance, expires_at) ==
    \E r \in {update_memory_full(DB, now, id, content, kind, tags, importance, expires_at)} :
       IF ~r.found THEN tool_error("update_memory")
       ELSE /\ Commit(r.db)
            /\ last' = [NoCall EXCEPT
                          !.op = "update_memory", !.id = id, !.kind = kind,
                          !.expires_at = expires_at,
                          !.supplied = [content |-> content, kind |-> kind, tags |-> tags,
                                        importance |-> importance,
                                        expires_at |-> expires_at],
                          !.old_expires_at = memories[index_of(DB, id)].expires_at]
            /\ UNCHANGED now

\* tools::handle_delete.  count records how many links named the id.
handle_delete(id) ==
    \E r \in {delete_memory(DB, id)} :
       IF ~r.deleted THEN tool_error("delete_memory")
       ELSE /\ Commit(r.db)
            /\ last' = [NoCall EXCEPT !.op = "delete_memory", !.id = id,
                           !.count = Cardinality({l \in memory_links :
                                          l.source_id = id \/ l.target_id = id})]
            /\ UNCHANGED now

\* tools::handle_list
handle_list(project, kind, limit, offset) ==
    \E r \in {list_memories(DB, now, project, kind, limit, offset)} :
       /\ Commit(r.db)
       /\ last' = [NoCall EXCEPT !.op = "list_memories", !.results = ids_in(r.memories),
                      !.count = r.total, !.time = now]
       /\ UNCHANGED now

\* tools::handle_get_project_brain, called with no working_dir.
handle_get_project_brain(project, max_tokens) ==
    IF project = NoneStr THEN tool_error("get_project_brain")
    ELSE \E tech_order \in Perms(entity_values(DB, project, {"tech"})),
            comp_order \in Perms(entity_values(cleanup_expired(DB, now).db, project,
                                               {"component", "file"})) :
         \E r \in {get_project_brain(DB, now, project, max_tokens, tech_order, comp_order)} :
            /\ Commit(r.db)
            /\ last' = [NoCall EXCEPT !.op = "get_project_brain", !.project = project,
                           !.max_tokens = max_tokens, !.brain = r.brain, !.time = now]
            /\ UNCHANGED now

\* tools::handle_search from the call of Database::search on, with the
\* keywords wk copied from the watcher.
search_call(query, limit, project, kind, tags, wk, bm25_order, vec_order, iter_order) ==
    \E r \in {search(DB, now, query, limit, project, kind, tags, wk, bm25_order,
                     vec_order, iter_order)} :
    /\ Commit(r.db)
    /\ last' = [NoCall EXCEPT !.op = "search_memory", !.results = ids_in(r.results),
                   !.scores = r.scores, !.query = query, !.limit = limit,
                   !.project = project, !.kind = kind, !.filter_tags = tags,
                   !.watcher_keywords = wk, !.lexical = r.lexical, !.vector = r.vector,
                   !.count = Len(r.results), !.time = now]
    /\ UNCHANGED now

\* let wk_ref = if watcher_keywords.is_empty() { None } else { Some(..) }
wk_ref(watcher_keywords) ==
    IF watcher_keywords = <<>> THEN NoneSeq ELSE Some(watcher_keywords)

\* tools::handle_search: the keywords of the watcher are passed when there
\* is one at least.
handle_search(query, limit, project, kind, tags, bm25_order, vec_order, iter_order) ==
    IF trim_is_empty(query) THEN tool_error("search_memory")
    ELSE search_call(query, limit, project, kind, tags,
                     wk_ref(get_boost_keywords(recent_changes)),
                     bm25_order, vec_order, iter_order)

\* tools::handle_cleanup
handle_cleanup ==
    \E r \in {cleanup_expired(DB, now)} :
       /\ Commit(r.db)
       /\ last' = [NoCall EXCEPT !.op = "cleanup_expired", !.count = r.affected, !.time = now]
       /\ UNCHANGED now

\* A handler that does not pass dry_run on.
handle_run_gc_no_dry(age_days, importance_threshold, dry_run, bucket_order, hash_order) ==
    \E config \in {[default_config EXCEPT
                      !.age_days = IF age_days.some THEN age_days.v ELSE @,
                      !.importance_threshold =
                          IF importance_threshold.some THEN importance_threshold.v ELSE @]} :
    \E r \in {run_gc(DB, now, config, FALSE, bucket_order, hash_order)} :
       /\ Commit(r.db)
       /\ last' = [NoCall EXCEPT !.op = "run_gc", !.dry_run = dry_run, !.time = now,
                      !.age_days = config.age_days,
                      !.importance_threshold = config.importance_threshold,
                      !.report = r.report, !.groups = r.groups]
       /\ UNCHANGED now

\* tools::handle_run_gc.  age_days and importance_threshold are options.
handle_run_gc(age_days, importance_threshold, dry_run, bucket_order, hash_order) ==
    \E config \in {[default_config EXCEPT
                      !.age_days = IF age_days.some THEN age_days.v ELSE @,
                      !.importance_threshold =
                          IF importance_threshold.some THEN importance_threshold.v ELSE @]} :
    \E r \in {run_gc(DB, now, config, dry_run, bucket_order, hash_order)} :
       /\ Commit(r.db)
       /\ last' = [NoCall EXCEPT !.op = "run_gc", !.dry_run = dry_run, !.time = now,
                      !.age_days = config.age_days,
                      !.importance_threshold = config.importance_threshold,
                      !.report = r.report, !.groups = r.groups]
       /\ UNCHANGED now

\* tools::handle_migrate with Database::migrate_from_v1: v1 holds the records
\* of the v1 files, [content, kind, project, tags, source], project from the
\* file the record stands in.
handle_migrate(v1) ==
    \E r \in {import_batch(DB, now,
                  [i \in 1..Len(SelectSeq(v1, LAMBDA m : m.content # <<>>)) |->
                      [SelectSeq(v1, LAMBDA m : m.content # <<>>)[i]
                          EXCEPT !.kind = parse_v1_kind(@)]])} :
       /\ Commit(r.db)
       /\ last' = [NoCall EXCEPT !.op = "migrate_v1", !.count = r.count]
       /\ UNCHANGED now

\* One event of the notify channel, handled by the thread of start_watcher.
watch_event(kind, paths) ==
    /\ recent_changes' = (IF kind \in {"Modify", "Create"}
                          THEN push_all(recent_changes, paths, now)
                          ELSE recent_changes)
    /\ UNCHANGED <<now, tables, last>>

\* ----------------------------------------------------------------- threads
\* The steps of the two threads around the Mutex of WATCHER_STATE.  request is
\* [pc, tool, args, keywords]: the main thread is idle, or inside
\* handle_search or handle_get_file_context before watcher.lock() ("lock"),
\* holding the guard ("copy", "unlock"), or past the block of the guard
\* ("call"); keywords is the local vector.  watcher is [pc, paths]: the thread
\* waits for an event ("recv"), looks at the next path of the event ("path"),
\* waits for the lock ("lock") or holds it ("push").
Idle ==
    [pc |-> "idle", tool |-> "none",
     args |-> [query |-> <<>>, limit |-> 0, project |-> NoneStr, kind |-> NoneStr,
               tags |-> NoneSeq],
     keywords |-> <<>>]

Receiving == [pc |-> "recv", paths |-> <<>>]

FILE_CONTEXT_LIMIT == 10

\* The main thread enters handle_search or handle_get_file_context.
request_begin(tool, args) ==
    /\ request.pc = "idle"
    /\ IF tool = "search_memory" /\ trim_is_empty(args.query)
       THEN tool_error("search_memory") /\ UNCHANGED <<recent_changes, threads>>
       ELSE /\ request' = [pc |-> "lock", tool |-> tool, args |-> args, keywords |-> <<>>]
            /\ UNCHANGED <<now, tables, last, recent_changes, lock, watcher>>

\* if let Ok(state) = watcher.lock()
request_lock ==
    /\ request.pc = "lock"
    /\ lock = "none"
    /\ lock' = "request"
    /\ request' = [request EXCEPT !.pc = "copy"]
    /\ UNCHANGED <<now, tables, last, recent_changes, watcher>>

\* watcher_keywords = state.get_boost_keywords()
request_copy ==
    /\ request.pc = "copy"
    /\ request' = [request EXCEPT !.pc = "unlock",
                                  !.keywords = get_boost_keywords(recent_changes)]
    /\ UNCHANGED <<now, tables, last, recent_changes, lock, watcher>>

\* A guard that lives to the end of the handler.
request_unlock_late ==
    /\ request.pc = "unlock"
    /\ request' = [request EXCEPT !.pc = "call"]
    /\ UNCHANGED <<now, tables, last, recent_changes, lock, watcher>>

\* The block of `if let Ok(state)` ends: the guard is dropped.
request_unlock ==
    /\ request.pc = "unlock"
    /\ lock' = "none"
    /\ request' = [request EXCEPT !.pc = "call"]
    /\ UNCHANGED <<now, tables, last, recent_changes, watcher>>

\* tools::handle_get_file_context from `if keywords.is_empty()` on: the query
\* is the keywords joined by spaces.
file_context_call(words, bm25_order, vec_order, iter_order) ==
    IF words = <<>>
    THEN /\ last' = [NoCall EXCEPT !.op = "get_file_context", !.time = now]
         /\ UNCHANGED <<now, tables>>
    ELSE \E r \in {search(DB, now, words, FILE_CONTEXT_LIMIT, NoneStr, NoneStr, NoneSeq,
                          Some(words), bm25_order, vec_order, iter_order)} :
         /\ Commit(r.db)
         /\ last' = [NoCall EXCEPT !.op = "get_file_context",
                        !.results = ids_in(r.results), !.scores = r.scores,
                        !.query = words, !.limit = FILE_CONTEXT_LIMIT,
                        !.watcher_keywords = Some(words),
                        !.lexical = r.lexical, !.vector = r.vector,
                        !.count = Len(r.results), !.time = now]
         /\ UNCHANGED now

\* The rest of the handler: the call of the store and the response.
request_call(bm25_order, vec_order, iter_order) ==
    /\ request.pc = "call"
    /\ IF request.tool = "search_memory"
       THEN search_call(request.args.query, request.args.limit, request.args.project,
                        request.args.kind, request.args.tags, wk_ref(request.keywords),
                        bm25_order, vec_order, iter_order)
       ELSE file_context_call(request.keywords, bm25_order, vec_order, iter_order)
    /\ request' = Idle
    /\ UNCHANGED <<recent_changes, lock, watcher>>

\* for event in rx: an event that is no Modify and no Create is dropped.
watcher_recv(kind, paths) ==
    /\ watcher.pc = "recv"
    /\ watcher' = IF kind \in {"Modify", "Create"} THEN [pc |-> "path", paths |-> paths]
                  ELSE watcher
    /\ UNCHANGED <<now, tables, last, recent_changes, lock, request>>

\* for path in &event.paths: the path is skipped or will be recorded.
watcher_path ==
    /\ watcher.pc = "path"
    /\ watcher' = IF watcher.paths = <<>> THEN Receiving
                  ELSE IF recorded(Head(watcher.paths)) THEN [watcher EXCEPT !.pc = "lock"]
                  ELSE [watcher EXCEPT !.paths = Tail(@)]
    /\ UNCHANGED <<now, tables, last, recent_changes, lock, request>>

\* if let Ok(mut s) = state_clone.lock()
watcher_lock ==
    /\ watcher.pc = "lock"
    /\ lock = "none"
    /\ lock' = "watcher"
    /\ watcher' = [watcher EXCEPT !.pc = "push"]
    /\ UNCHANGED <<now, tables, last, recent_changes, request>>

\* s.push(FileChange { .. }) and the end of the block: the guard is dropped.
watcher_push ==
    /\ watcher.pc = "push"
    /\ recent_changes' = push(recent_changes, file_change(Head(watcher.paths), now))
    /\ lock' = "none"
    /\ watcher' = [pc |-> "path", paths |-> Tail(watcher.paths)]
    /\ UNCHANGED <<now, tables, last, request>>

\* ------------------------------------------------------------------ server
\* A line of stdin is [kind, id, method, name, args]: kind "blank" (empty
\* after trim), "invalid" (bytes that are no UTF-8 text: the reader yields an
\* error), "garbage" (text that serde_json does not parse into a request) or
\* "request".  A response is [id, code, isError]: the id of the request (none
\* for a parse error), the code of a JSON-RPC error or 0, and the isError of a
\* tool result.
PARSE_ERROR == -32700
METHOD_NOT_FOUND == -32601

\* JsonRpcResponse::error(id, code, message)
response_error(id, code) == [id |-> id, code |-> code, isError |-> FALSE]

\* JsonRpcResponse::success(id, result)
response_success(id, isError) == [id |-> id, code |-> 0, isError |-> isError]

\* tools::handle_tool_call, for the tools that the lines of the model name.
handle_tool_call(name, args) ==
    CASE name = "add_memory" ->
             handle_add(args.content, args.kind, args.project, args.tags, NoneStr,
                        args.importance, args.expires_at)
      [] name = "get_memory" -> handle_get(args.id)
      [] name = "delete_memory" -> handle_delete(args.id)
      [] OTHER -> tool_error(name)

\* main::handle_request: the response to a parsed request.
handle_request(req) ==
    CASE req.method \in {"initialize", "notifications/initialized", "tools/list", "ping"} ->
             /\ stdout' = Append(stdout, response_success(Some(req.id), FALSE))
             /\ UNCHANGED <<now, tables, last>>
      [] req.method = "tools/call" ->
             /\ handle_tool_call(req.name, req.args)
             /\ stdout' = Append(stdout, response_success(Some(req.id), ~last'.ok))
      [] OTHER ->
             /\ stdout' = Append(stdout, response_error(Some(req.id), METHOD_NOT_FOUND))
             /\ UNCHANGED <<now, tables, last>>

\* One turn of the loop of run_mcp_server over the lines of stdin: the line
\* is the next one of the input, its id is its position.
serve_line(line) ==
    /\ serving
    /\ stdin' = Append(stdin, [line EXCEPT !.id = Len(stdin) + 1])
    /\ CASE line.kind = "invalid" ->
                /\ serving' = FALSE
                /\ UNCHANGED <<now, tables, last, stdout>>
         [] line.kind = "blank" ->
                UNCHANGED <<now, tables, last, stdout, serving>>
         [] line.kind = "garbage" ->
                /\ stdout' = Append(stdout, response_error(NoneInt, PARSE_ERROR))
                /\ UNCHANGED <<now, tables, last, serving>>
         [] OTHER ->
                /\ handle_request([line EXCEPT !.id = Len(stdin) + 1])
                /\ UNCHANGED serving
    /\ UNCHANGED <<recent_changes, threads, codec, prompt>>

\* ------------------------------------------------------------------ inputs
cA == <<Wd("fix"), Wd("jwt"), Wd("expiry")>>
cA2 == <<Wd("Fix"), Wd("JWT"), Tok("", "expiry", "!")>>
cB == <<Wd("stripe"), Wd("api"), Wd("key")>>
cC == <<Wd("stripe"), Wd("webhook")>>

\* File names.
MyWidget_rs == <<"M", "y", "W", "i", "d", "g", "e", "t", ".", "r", "s">>
myAPI_ts == <<"m", "y", "A", "P", "I", ".", "t", "s">>
jwt_fix_md == <<"j", "w", "t", "-", "f", "i", "x", ".", "m", "d">>
Makefile == <<"M", "a", "k", "e", "f", "i", "l", "e">>
Cargo_lock == <<"C", "a", "r", "g", "o", ".", "l", "o", "c", "k">>
dot_env == <<".", "e", "n", "v">>
index_js == <<"i", "n", "d", "e", "x", ".", "j", "s">>

\* The orders in which a HashMap may hand out the keywords of cA and cB.
HashOrders == {<<"expiry", "stripe">>, <<"stripe", "expiry">>}

Item(content, kind, project, importance) ==
    [content |-> content, kind |-> kind, project |-> project, tags |-> <<>>,
     source |-> "cursor", importance |-> importance, expires_at |-> NoneSeq]

V1(content, kind, project) ==
    [content |-> content, kind |-> kind, project |-> project, tags |-> <<>>,
     source |-> "v1-import"]

\* The arguments of an add_memory call.
Add(content, kind, project, tags, importance, expires_at) ==
    [content |-> content, kind |-> kind, project |-> project, tags |-> tags,
     importance |-> importance, expires_at |-> expires_at]

Upd(content, kind, tags, importance, expires_at) ==
    [content |-> content, kind |-> kind, tags |-> tags, importance |-> importance,
     expires_at |-> expires_at]

\* The arguments of a search_memory call.
Query(query, limit, project, kind, tags) ==
    [query |-> query, limit |-> limit, project |-> project, kind |-> kind, tags |-> tags]

\* A search_memory call with no query: an error.
NoQuery == Query(<<>>, 1, NoneStr, NoneStr, NoneSeq)

Path(dir, name) == [dir |-> dir, name |-> name]

\* An event the watcher skips.
Removed ==
    [kind |-> "Remove",
     paths |-> <<Path("src", <<"s", "t", "r", "i", "p", "e", ".", "r", "s">>)>>]

\* Lines of stdin.
Line(kind, method, name, args) ==
    [kind |-> kind, id |-> 0, method |-> method, name |-> name, args |-> args]

NoArgs == [id |-> 0]

Blank == Line("blank", "", "", NoArgs)
Garbage == Line("garbage", "", "", NoArgs)
InvalidUtf8 == Line("invalid", "", "", NoArgs)
Method(method) == Line("request", method, "", NoArgs)
Call(name, args) == Line("request", "tools/call", name, args)

\* The model stops at max_mem rows, max_id ids and MaxAccess reads of a row.
Within(D) ==
    /\ Len(memories') <= D.max_mem
    /\ next_uuid' <= D.max_id + 1
    /\ \A i \in 1..Len(memories') : memories'[i].access_count <= MaxAccess

\* One step of the server with the inputs of D: time passes, the main thread
\* answers a tool call, or the watcher thread handles an event.
Step(D) ==
    \/ Tick /\ UNCHANGED <<recent_changes, threads, stream, codec, prompt>>
    \/ \E a \in D.adds :
          /\ handle_add(a.content, a.kind, a.project, a.tags, NoneStr, a.importance,
                        a.expires_at)
          /\ Within(D) /\ UNCHANGED <<recent_changes, threads, stream, codec, prompt>>
    \/ \E items \in D.bulks :
          handle_add_bulk(items) /\ Within(D) /\ UNCHANGED <<recent_changes, threads, stream, codec, prompt>>
    \/ \E id \in D.gets : handle_get(id) /\ UNCHANGED <<recent_changes, threads, stream, codec, prompt>>
    \/ \E id \in D.ids, u \in D.updates :
          /\ handle_update(id, u.content, u.kind, u.tags, u.importance, u.expires_at)
          /\ UNCHANGED <<recent_changes, threads, stream, codec, prompt>>
    \/ \E id \in D.ids : handle_delete(id) /\ UNCHANGED <<recent_changes, threads, stream, codec, prompt>>
    \/ \E l \in D.lists :
          handle_list(l.project, l.kind, l.limit, l.offset) /\ UNCHANGED <<recent_changes, threads, stream, codec, prompt>>
    \/ \E q \in D.searches :
          \E bm25_order \in (IF q.query = <<>> THEN {<<>>} ELSE Perms(ids_of(DB))),
             vec_order \in (IF q.query = <<>> THEN {<<>>} ELSE Perms(ids_of(DB))),
             iter_order \in (IF q.query = <<>> THEN {<<>>} ELSE Perms(ids_of(DB))) :
             /\ handle_search(q.query, q.limit, q.project, q.kind, q.tags, bm25_order,
                              vec_order, iter_order)
             /\ Within(D) /\ UNCHANGED <<recent_changes, threads, stream, codec, prompt>>
    \/ handle_cleanup /\ UNCHANGED <<recent_changes, threads, stream, codec, prompt>>
    \/ \E g \in D.gcs, bucket_order \in Perms(D.projects), hash_order \in HashOrders :
          /\ handle_run_gc(g.age_days, g.importance_threshold, g.dry_run, bucket_order,
                           hash_order)
          /\ Within(D) /\ UNCHANGED <<recent_changes, threads, stream, codec, prompt>>
    \/ \E v1 \in D.v1s : handle_migrate(v1) /\ Within(D) /\ UNCHANGED <<recent_changes, threads, stream, codec, prompt>>
    \/ \E e \in D.events : /\ watch_event(e.kind, e.paths)
          /\ Len(recent_changes') <= D.max_changes
          /\ UNCHANGED <<threads, stream, codec, prompt>>

\* One step of the two threads with the inputs of D: time passes, the main
\* thread adds a memory or makes a step of a search_memory or get_file_context
\* call, or the watcher thread makes a step of its loop.
StepThreads(D) ==
    \/ Tick /\ UNCHANGED <<recent_changes, threads, stream, codec, prompt>>
    \/ \E a \in D.adds :
          /\ request.pc = "idle"
          /\ handle_add(a.content, a.kind, a.project, a.tags, NoneStr, a.importance,
                        a.expires_at)
          /\ Within(D) /\ UNCHANGED <<recent_changes, threads, stream, codec, prompt>>
    \/ \E q \in D.searches : request_begin("search_memory", q) /\ UNCHANGED <<stream, codec, prompt>>
    \/ request_begin("get_file_context", Idle.args) /\ UNCHANGED <<stream, codec, prompt>>
    \/ request_lock /\ UNCHANGED <<stream, codec, prompt>>
    \/ request_copy /\ UNCHANGED <<stream, codec, prompt>>
    \/ request_unlock /\ UNCHANGED <<stream, codec, prompt>>
    \/ \E bm25_order \in Perms(ids_of(DB)), vec_order \in Perms(ids_of(DB)),
          iter_order \in Perms(ids_of(DB)) :
          request_call(bm25_order, vec_order, iter_order) /\ Within(D) /\ UNCHANGED <<stream, codec, prompt>>
    \/ \E e \in D.events : watcher_recv(e.kind, e.paths) /\ UNCHANGED <<stream, codec, prompt>>
    \/ watcher_path /\ UNCHANGED <<stream, codec, prompt>>
    \/ watcher_lock /\ UNCHANGED <<stream, codec, prompt>>
    \/ watcher_push /\ Len(recent_changes') <= D.max_changes /\ UNCHANGED <<stream, codec, prompt>>

\* The server with the lines of D on its stdin, at most max_lines of them.
StepServer(D) ==
    \E line \in D.lines :
        /\ Len(stdin) < D.max_lines
        /\ serve_line(line)
        /\ Within(D)

\* The rows in ascending order of rowid, the order of a table scan.
rowid_order(db) == collect(ids_in(rows_by_rowid(db.memories)))

\* The rows that hold a word of the query, whose cosine is above 0, and then
\* the others, that the stable sort leaves in the order of the scan.
cosine_order(db, query, order) ==
    Once(bm25_results(db, query, NoneStr, NoneStr), LAMBDA hits :
        SelectSeq(order, LAMBDA id : id \in hits)
        \o SelectSeq(order, LAMBDA id : id \notin hits))

\* One step of the server over a store too large for every order of its rows
\* to be tried: the rows of equal BM25 score and of equal cosine are in the
\* order of the scan.
StepRank(D) ==
    \/ Tick /\ UNCHANGED <<recent_changes, threads, stream, codec, prompt>>
    \/ \E items \in D.bulks :
          handle_add_bulk(items) /\ Within(D)
          /\ UNCHANGED <<recent_changes, threads, stream, codec, prompt>>
    \/ \E id \in D.ids :
          handle_delete(id) /\ UNCHANGED <<recent_changes, threads, stream, codec, prompt>>
    \/ \E q \in D.searches :
          \E order \in {IF q.query = <<>> THEN <<>> ELSE rowid_order(DB)} :
             /\ handle_search(q.query, q.limit, q.project, q.kind, q.tags, order,
                              cosine_order(DB, q.query, order), order)
             /\ Within(D) /\ UNCHANGED <<recent_changes, threads, stream, codec, prompt>>

\* Database::get_project_context with no working_dir: the four lists, by
\* the ids of their rows, and the counts.
get_project_context(db, t, project) ==
    Let(IF project # NoneStr THEN list_memories(db, t, project, NoneStr, 100, 0)
        ELSE [db |-> db, memories |-> <<>>, total |-> 0], LAMBDA proj :
    Let(list_memories(proj.db, t, NoneStr, "preference", 50, 0), LAMBDA prefs :
    Let(list_memories(prefs.db, t, NoneStr, "pattern", 50, 0), LAMBDA patterns :
    Let(list_memories(patterns.db, t, NoneStr, "snippet", 20, 0), LAMBDA snippets :
        [db |-> snippets.db,
         context |-> [project |-> project,
                      project_memories |-> proj.total,
                      global_preferences |-> Len(prefs.memories),
                      global_patterns |-> Len(patterns.memories),
                      items |-> [project |-> ids_in(proj.memories),
                                 preferences |-> ids_in(prefs.memories),
                                 patterns |-> ids_in(patterns.memories),
                                 snippets |-> ids_in(snippets.memories)]]]))))

\* tools::handle_project_context
handle_project_context(project) ==
    \E r \in {get_project_context(DB, now, project)} :
       /\ Commit(r.db)
       /\ last' = [NoCall EXCEPT !.op = "get_project_context", !.project = project,
                      !.context = r.context, !.time = now]
       /\ UNCHANGED now

StepContext(D) ==
    \/ Step(D)
    \/ \E project \in D.contexts :
          /\ handle_project_context(project)
          /\ UNCHANGED <<recent_changes, threads, stream, codec, prompt>>

\* Database::add_memory when a statement of the insert path returns an
\* error: the INSERT INTO memories ("insert"), or the INSERT INTO
\* memories_fts that follows it ("fts"), each ending the call with `?`.
add_memory_fails(db, t, content, kind, project, tags, source, importance, expires_at, failed) ==
    IF failed = "insert" THEN db
    ELSE [db EXCEPT
            !.memories = Append(@,
                [id |-> db.next_uuid, rowid |-> last_insert_rowid(db), content |-> content,
                 kind |-> kind, project |-> project, tags |-> tags, source |-> source,
                 importance |-> clamp(importance), expires_at |-> expires_at,
                 updated_at |-> t, last_accessed_at |-> NULL, access_count |-> 0,
                 embedding |-> embed_text(content)]),
            !.next_uuid = @ + 1]

\* tools::handle_add for a call that SQLite fails on the insert path.
handle_add_fails(content, kind, project, tags, source, importance, expires_at, failed) ==
    LET k == IF kind = NoneStr THEN "fact" ELSE kind
        imp == IF importance.some THEN importance.v ELSE DEFAULT_IMPORTANCE
    IN /\ ~trim_is_empty(content)
       /\ k \in VALID_KINDS
       /\ find_duplicate(DB, content, project) = 0
       /\ Commit(add_memory_fails(DB, now, content, k, project, tags,
                                  IF source = NoneStr THEN "cursor" ELSE source,
                                  imp, expires_at, failed))
       /\ last' = [NoCall EXCEPT !.op = "add_memory", !.ok = FALSE, !.content = content,
                      !.kind = k, !.project = project, !.tags = tags, !.importance = imp,
                      !.expires_at = expires_at]
       /\ UNCHANGED now

StepFails(D) ==
    \/ Step(D)
    \/ \E a \in D.adds : \E failed \in D.failures :
          /\ handle_add_fails(a.content, a.kind, a.project, a.tags, NoneStr, a.importance,
                              a.expires_at, failed)
          /\ Within(D) /\ UNCHANGED <<recent_changes, threads, stream, codec, prompt>>

\* The server is not called for a number of days, once.
Wait(days) ==
    /\ now <= MaxClock
    /\ now' = now + days * TicksPerDay
    /\ UNCHANGED <<tables, last>>

\* The server with bulk adds, adds, deletes and GC cycles, over months.
StepCompact(D) ==
    \/ Tick /\ UNCHANGED <<recent_changes, threads, stream, codec, prompt>>
    \/ \E days \in D.days :
          Wait(days) /\ UNCHANGED <<recent_changes, threads, stream, codec, prompt>>
    \/ \E items \in D.bulks :
          handle_add_bulk(items) /\ Within(D)
          /\ UNCHANGED <<recent_changes, threads, stream, codec, prompt>>
    \/ \E a \in D.adds :
          /\ handle_add(a.content, a.kind, a.project, a.tags, NoneStr, a.importance,
                        a.expires_at)
          /\ Within(D) /\ UNCHANGED <<recent_changes, threads, stream, codec, prompt>>
    \/ \E id \in D.ids :
          handle_delete(id) /\ UNCHANGED <<recent_changes, threads, stream, codec, prompt>>
    \/ \E g \in D.gcs, bucket_order \in Perms(D.projects), hash_order \in HashOrders :
          /\ handle_run_gc(g.age_days, g.importance_threshold, g.dry_run, bucket_order,
                           hash_order)
          /\ Within(D) /\ UNCHANGED <<recent_changes, threads, stream, codec, prompt>>

\* One step of the server that also answers get_project_brain calls.
StepBrain(D) ==
    \/ Step(D)
    \/ \E b \in D.brains :
          /\ handle_get_project_brain(b.project, b.max_tokens)
          /\ UNCHANGED <<recent_changes, threads, stream, codec, prompt>>

\* ------------------------------------------------------------ global prompt
\* Option<String>::None and a path that PROMPT_CACHE holds no entry for.
NoContent == [some |-> FALSE, v |-> ""]
NoEntry == [some |-> FALSE, v |-> <<0, "">>]

\* Another process writes the file: the mtime moves on, or stays when the
\* write falls into the granularity of the clock of the file system.
write_file(content, modified) ==
    /\ prompt_file' = [exists |-> TRUE, modified |-> modified, content |-> content]
    /\ UNCHANGED <<PROMPT_CACHE, prompt_call>>

\* Another process removes the file.
remove_file ==
    /\ prompt_file.exists
    /\ prompt_file' = [prompt_file EXCEPT !.exists = FALSE]
    /\ UNCHANGED <<PROMPT_CACHE, prompt_call>>

\* get_cached_prompt up to metadata.modified(): None for a path that does
\* not exist.
prompt_metadata ==
    /\ prompt_call.pc = "return"
    /\ prompt_call' = IF ~prompt_file.exists
                      THEN [pc |-> "return", modified |-> 0, result |-> NoContent]
                      ELSE [pc |-> "lock", modified |-> prompt_file.modified,
                            result |-> NoContent]
    /\ UNCHANGED <<prompt_file, PROMPT_CACHE>>

\* get_cached_prompt from PROMPT_CACHE.lock() to its return: the cached
\* content when the cached mtime is the one just read, else the content
\* read_to_string yields now, stored with the mtime read before.
prompt_read ==
    /\ prompt_call.pc = "lock"
    /\ IF PROMPT_CACHE.some /\ PROMPT_CACHE.v[1] = prompt_call.modified
       THEN /\ prompt_call' = [prompt_call EXCEPT !.pc = "return",
                                                  !.result = Some(PROMPT_CACHE.v[2])]
            /\ UNCHANGED PROMPT_CACHE
       ELSE IF prompt_file.exists
       THEN /\ PROMPT_CACHE' = Some(<<prompt_call.modified, prompt_file.content>>)
            /\ prompt_call' = [prompt_call EXCEPT !.pc = "return",
                                                  !.result = Some(prompt_file.content)]
       ELSE /\ prompt_call' = [prompt_call EXCEPT !.pc = "return", !.result = NoContent]
            /\ UNCHANGED PROMPT_CACHE
    /\ UNCHANGED prompt_file

\* The server after main has opened an empty database.
InitServer ==
    /\ now = 1
    /\ memories = <<>>
    /\ memories_fts = {}
    /\ memory_links = {}
    /\ memory_entities = {}
    /\ projects = {}
    /\ next_uuid = 1
    /\ last = NoCall
    /\ recent_changes = <<>>
    /\ lock = "none"
    /\ request = Idle
    /\ watcher = Receiving
    /\ stdin = <<>>
    /\ stdout = <<>>
    /\ serving = TRUE
    /\ prompt_file = [exists |-> FALSE, modified |-> 0, content |-> ""]
    /\ PROMPT_CACHE = NoEntry
    /\ prompt_call = [pc |-> "return", modified |-> 0, result |-> NoContent]

Init ==
    /\ InitServer
    /\ embedding_vec = <<>>
    /\ embedding_blob = NoneSeq
    /\ restored_vec = NoneSeq

\* The embedding column written and read back.
encode ==
    /\ ~embedding_blob.some
    /\ embedding_blob' = Some(vec_to_blob(embedding_vec))
    /\ UNCHANGED <<embedding_vec, restored_vec>>

decode ==
    /\ embedding_blob.some
    /\ ~restored_vec.some
    /\ restored_vec' = Some(blob_to_vec(embedding_blob.v))
    /\ UNCHANGED <<embedding_vec, embedding_blob>>

StepBlob ==
    \/ encode /\ UNCHANGED <<now, tables, last, recent_changes, threads, stream, prompt>>
    \/ decode /\ UNCHANGED <<now, tables, last, recent_changes, threads, stream, prompt>>

\* ---------------------------------------------------------- specifications
\* Every operation of the store: adds of two contents with an importance out
\* of range and an expiry, a bulk add with a skipped item and a kind outside
\* VALID_KINDS, an update, deletes, sweeps, GC cycles (dry and not) over rows
\* of any age, and the import of a v1 file of project p.
Dom ==
    [max_changes |-> MaxChanges,
     max_mem |-> MaxMem, max_id |-> MaxId, ids |-> 1..MaxId, gets |-> {1},
     projects |-> {NoneStr},
     adds |-> {Add(c, "bug", NoneStr, <<>>, Some(0), e) :
                  c \in {cA, cB}, e \in {NoneSeq, timestamp(1, 0)}},
     bulks |-> {<<Item(<<>>, "fact", NoneStr, NoneInt),
                  Item(cB, "architecture", NoneStr, Some(0))>>},
     updates |-> {Upd(Some(cB), NoneStr, NoneSeq, Some(9), NoneSeq)},
     lists |-> {[project |-> NoneStr, kind |-> NoneStr, limit |-> 20, offset |-> 0]},
     searches |-> {NoQuery}, events |-> {Removed},
     gcs |-> {[age_days |-> Some(0), importance_threshold |-> NoneInt, dry_run |-> FALSE],
              [age_days |-> Some(0), importance_threshold |-> NoneInt, dry_run |-> TRUE]},
     v1s |-> {<<V1(cA2, NoneStr, "p")>>}]

Next == Step(Dom)

Spec == Init /\ [][Next]_vars

\* The expiry of memories: adds with no expiry, with a UTC expiry and with an
\* expiry written at offset +2; updates that clear, set and keep the expiry;
\* list, search and the explicit sweep at every tick.
DomTTL ==
    [max_changes |-> MaxChanges,
     max_mem |-> MaxMem, max_id |-> MaxId, ids |-> {1}, gets |-> {1},
     projects |-> {NoneStr},
     adds |-> {Add(c, "fact", NoneStr, <<>>, NoneInt, e) :
                  c \in {cA, cB}, e \in {NoneSeq, timestamp(1, 0), timestamp(2, 2)}},
     bulks |-> {<<Item(<<>>, "fact", NoneStr, NoneInt)>>},
     updates |-> {Upd(NoneSeq, NoneStr, NoneSeq, NoneInt, EmptyStr),
                  Upd(NoneSeq, NoneStr, NoneSeq, NoneInt, timestamp(2, 0)),
                  Upd(NoneSeq, NoneStr, NoneSeq, Some(4), NoneSeq)},
     lists |-> {[project |-> NoneStr, kind |-> NoneStr, limit |-> 20, offset |-> 0]},
     searches |-> {Query(<<"jwt">>, 1, NoneStr, NoneStr, NoneSeq)}, events |-> {Removed},
     gcs |-> {[age_days |-> NoneInt, importance_threshold |-> NoneInt, dry_run |-> TRUE]},
     v1s |-> {<<>>}]

NextTTL == Step(DomTTL)

SpecTTL == Init /\ [][NextTTL]_vars

\* Dedup: adds of two contents that normalize alike, with and without a
\* project, with two tag lists and with importances inside and outside 1..5;
\* an import, which does not dedup, puts a similar row into the global scope.
DomDedup ==
    [max_changes |-> MaxChanges,
     max_mem |-> MaxMem, max_id |-> MaxId, ids |-> {1}, gets |-> {1},
     projects |-> {NoneStr, "p"},
     adds |-> {Add(cA, NoneStr, "p", <<"a">>, Some(7), NoneSeq),
               Add(cA, NoneStr, "p", <<"b">>, Some(2), NoneSeq),
               Add(cA, NoneStr, NoneStr, <<"b">>, Some(0), NoneSeq),
               Add(cA2, NoneStr, NoneStr, <<"a">>, Some(4), NoneSeq)},
     bulks |-> {<<Item(<<>>, "fact", NoneStr, NoneInt)>>},
     updates |-> {Upd(NoneSeq, NoneStr, NoneSeq, Some(1), NoneSeq)},
     lists |-> {[project |-> NoneStr, kind |-> NoneStr, limit |-> 20, offset |-> 0]},
     searches |-> {NoQuery}, events |-> {Removed},
     gcs |-> {[age_days |-> NoneInt, importance_threshold |-> NoneInt, dry_run |-> TRUE]},
     v1s |-> {<<V1(cA, NoneStr, NoneStr)>>}]

NextDedup == Step(DomDedup)

SpecDedup == Init /\ [][NextDedup]_vars

\* Compaction after compaction: bugs and notes of importance 1 about the same
\* two subjects, GC cycles that take rows of any age, room for a summary next
\* to a new group.
DomGC ==
    [max_changes |-> MaxChanges,
     max_mem |-> MaxMemGC, max_id |-> MaxIdGC, ids |-> {1}, gets |-> {1},
     projects |-> {NoneStr},
     adds |-> {Add(c, k, NoneStr, <<>>, Some(1), NoneSeq) :
                  c \in {cA, cB}, k \in {"bug", "note"}},
     bulks |-> {<<Item(<<>>, "fact", NoneStr, NoneInt)>>},
     updates |-> {Upd(NoneSeq, NoneStr, NoneSeq, Some(1), NoneSeq)},
     lists |-> {[project |-> NoneStr, kind |-> NoneStr, limit |-> 20, offset |-> 0]},
     searches |-> {NoQuery}, events |-> {Removed},
     gcs |-> {[age_days |-> Some(0), importance_threshold |-> NoneInt, dry_run |-> FALSE]},
     v1s |-> {<<>>}]

NextGC == Step(DomGC)

SpecGC == Init /\ [][NextGC]_vars

\* Candidates of a compaction: rows of a compressible and of another kind,
\* below and at the importance threshold, with a score above and below 0.6,
\* younger and older than age_days, expired and not.
DomElig ==
    [max_changes |-> MaxChanges,
     max_mem |-> MaxMemGC, max_id |-> MaxIdGC, ids |-> {1}, gets |-> {1},
     projects |-> {NoneStr, "p"},
     adds |-> {Add(cA, "note", NoneStr, <<>>, Some(2), NoneSeq),
               Add(cB, "note", NoneStr, <<>>, Some(1), timestamp(1, 0)),
               Add(cB, "note", NoneStr, <<>>, Some(2), NoneSeq),
               Add(cA, "fact", "p", <<>>, Some(1), NoneSeq)},
     bulks |-> {<<Item(<<>>, "fact", NoneStr, NoneInt)>>},
     updates |-> {Upd(NoneSeq, NoneStr, NoneSeq, Some(1), NoneSeq)},
     lists |-> {[project |-> NoneStr, kind |-> NoneStr, limit |-> 0, offset |-> 0]},
     searches |-> {NoQuery}, events |-> {Removed},
     gcs |-> {[age_days |-> a, importance_threshold |-> NoneInt, dry_run |-> FALSE] :
                 a \in {Some(0), Some(1)}},
     v1s |-> {<<>>}]

NextElig == Step(DomElig)

SpecElig == Init /\ [][NextElig]_vars

\* Writes of the content: adds and bulk items with and without content,
\* updates that pass an empty content or the content of another row.
DomContent ==
    [max_changes |-> MaxChanges,
     max_mem |-> MaxMem, max_id |-> MaxId, ids |-> 1..MaxMem, gets |-> {1},
     projects |-> {NoneStr},
     adds |-> {Add(c, "fact", NoneStr, <<>>, NoneInt, NoneSeq) : c \in {<<>>, cA}},
     bulks |-> {<<Item(<<>>, "fact", NoneStr, NoneInt), Item(cB, "fact", NoneStr, NoneInt)>>},
     updates |-> {Upd(Some(c), NoneStr, NoneSeq, NoneInt, NoneSeq) : c \in {<<>>, cA2}},
     lists |-> {[project |-> NoneStr, kind |-> NoneStr, limit |-> 20, offset |-> 0]},
     searches |-> {NoQuery}, events |-> {Removed},
     gcs |-> {[age_days |-> NoneInt, importance_threshold |-> NoneInt, dry_run |-> TRUE]},
     v1s |-> {<<>>}]

NextContent == Step(DomContent)

SpecContent == Init /\ [][NextContent]_vars

\* Searches: two memories about stripe and one about jwt, of two kinds and
\* importances, with and without a tag; queries for a word and for a prefix,
\* with no tag filter, with a filter and with an empty filter, for one result
\* and for two; the watcher sees Stripe.rs change, once and again.  Updates and
\* deletes name an id not in use.
DomSearch ==
    [max_changes |-> MaxChanges,
     max_mem |-> MaxMem, max_id |-> MaxId, ids |-> {MaxId}, gets |-> {1},
     projects |-> {NoneStr},
     adds |-> {Add(cB, "decision", NoneStr, <<"A">>, Some(3), NoneSeq),
               Add(cC, "bug", NoneStr, <<>>, Some(3), NoneSeq),
               Add(cA, "bug", NoneStr, <<>>, Some(5), NoneSeq)},
     bulks |-> {<<Item(<<>>, "fact", NoneStr, NoneInt)>>},
     updates |-> {Upd(NoneSeq, NoneStr, NoneSeq, Some(4), NoneSeq)},
     lists |-> {[project |-> NoneStr, kind |-> NoneStr, limit |-> 0, offset |-> 0]},
     searches |-> {Query(<<"stripe">>, 2, NoneStr, NoneStr, NoneSeq),
                   Query(<<"stripe">>, 1, NoneStr, NoneStr, Some(<<"a">>)),
                   Query(<<"str">>, 2, NoneStr, NoneStr, Some(<<>>))},
     events |-> {[kind |-> "Modify",
                  paths |-> <<Path("src", <<"S", "t", "r", "i", "p", "e", ".", "r", "s">>)>>]},
     gcs |-> {[age_days |-> NoneInt, importance_threshold |-> NoneInt, dry_run |-> TRUE]},
     v1s |-> {<<>>}]

NextSearch == Step(DomSearch)

SpecSearch == Init /\ [][NextSearch]_vars

\* Compaction in a project and in the global scope: bugs of importance 1
\* about two subjects, with and without a project, and GC cycles, dry and not,
\* that take rows of any age.  Updates and deletes name an id not in use.
DomMerge ==
    [max_changes |-> MaxChanges,
     max_mem |-> MaxMem, max_id |-> MaxId, ids |-> {MaxIdGC}, gets |-> {1},
     projects |-> {NoneStr, "p"},
     adds |-> {Add(c, "bug", pr, <<>>, Some(1), NoneSeq) :
                  c \in {cA, cB}, pr \in {NoneStr, "p"}},
     bulks |-> {<<Item(<<>>, "fact", NoneStr, NoneInt)>>},
     updates |-> {Upd(NoneSeq, NoneStr, NoneSeq, Some(1), NoneSeq)},
     lists |-> {[project |-> NoneStr, kind |-> NoneStr, limit |-> 0, offset |-> 0]},
     searches |-> {NoQuery}, events |-> {Removed},
     gcs |-> {[age_days |-> Some(0), importance_threshold |-> NoneInt, dry_run |-> d] :
                 d \in BOOLEAN},
     v1s |-> {<<>>}]

NextMerge == Step(DomMerge)

SpecMerge == Init /\ [][NextMerge]_vars


\* The queue of the watcher up to its capacity and one past it: changes of one
\* file at both ticks, and an event the watcher skips.  The tool calls are
\* calls that answer with an error or find an empty store.
DomQueue ==
    [max_changes |-> MaxChangesQueue,
     max_mem |-> MaxMem, max_id |-> MaxId, ids |-> {MaxId}, gets |-> {1},
     projects |-> {NoneStr},
     adds |-> {Add(<<>>, "fact", NoneStr, <<>>, NoneInt, NoneSeq)},
     bulks |-> {<<Item(<<>>, "fact", NoneStr, NoneInt)>>},
     updates |-> {Upd(NoneSeq, NoneStr, NoneSeq, Some(4), NoneSeq)},
     lists |-> {[project |-> NoneStr, kind |-> NoneStr, limit |-> 20, offset |-> 0]},
     searches |-> {NoQuery},
     events |-> {[kind |-> "Modify", paths |-> <<Path("src", MyWidget_rs)>>], Removed},
     gcs |-> {[age_days |-> NoneInt, importance_threshold |-> NoneInt, dry_run |-> TRUE]},
     v1s |-> {<<>>}]

NextQueue == Step(DomQueue)

SpecQueue == Init /\ [][NextQueue]_vars

\* The events of the watcher: created and modified files with and without an
\* extension, with an extension that is not watched, hidden, below .git,
\* node_modules and target, an event of two paths and a removal; searches
\* that read the keywords.
DomWatcher ==
    [max_changes |-> MaxChanges,
     max_mem |-> MaxMem, max_id |-> MaxId, ids |-> {MaxId}, gets |-> {1},
     projects |-> {NoneStr},
     adds |-> {Add(<<>>, "fact", NoneStr, <<>>, NoneInt, NoneSeq)},
     bulks |-> {<<Item(<<>>, "fact", NoneStr, NoneInt)>>},
     updates |-> {Upd(NoneSeq, NoneStr, NoneSeq, Some(4), NoneSeq)},
     lists |-> {[project |-> NoneStr, kind |-> NoneStr, limit |-> 20, offset |-> 0]},
     searches |-> {NoQuery, Query(<<"jwt">>, 1, NoneStr, NoneStr, NoneSeq)},
     events |-> {[kind |-> "Create", paths |-> <<Path("src", MyWidget_rs)>>],
                 [kind |-> "Modify", paths |-> <<Path("src", myAPI_ts)>>],
                 [kind |-> "Modify",
                  paths |-> <<Path("docs", jwt_fix_md), Path("src", Cargo_lock)>>],
                 [kind |-> "Create", paths |-> <<Path("src", Makefile)>>],
                 [kind |-> "Create", paths |-> <<Path("src", dot_env)>>],
                 [kind |-> "Modify", paths |-> <<Path(".git", index_js)>>],
                 [kind |-> "Modify", paths |-> <<Path("node_modules", index_js)>>],
                 [kind |-> "Create", paths |-> <<Path("target", MyWidget_rs)>>],
                 Removed},
     gcs |-> {[age_days |-> NoneInt, importance_threshold |-> NoneInt, dry_run |-> TRUE]},
     v1s |-> {<<>>}]

NextWatcher == Step(DomWatcher)

SpecWatcher == Init /\ [][NextWatcher]_vars


\* The two threads: searches and get_file_context calls over a store of at
\* most one memory while the watcher handles an event of two paths and a
\* removal.
DomThreads ==
    [max_changes |-> MaxChanges,
     max_mem |-> MaxMemThreads, max_id |-> MaxMemThreads,
     adds |-> {Add(<<Wd("my"), Wd("widget")>>, "fact", NoneStr, <<>>, NoneInt, NoneSeq)},
     searches |-> {NoQuery, Query(<<"widget">>, 1, NoneStr, NoneStr, NoneSeq)},
     events |-> {[kind |-> "Modify",
                  paths |-> <<Path("src", MyWidget_rs), Path("src", Cargo_lock)>>],
                 Removed}]

NextThreads == StepThreads(DomThreads)

SpecThreads == Init /\ [][NextThreads]_vars


\* The lines of stdin: blank, no UTF-8, no JSON, the methods of the protocol
\* and one that is none, and calls of tools that succeed, that fail and of a
\* tool that does not exist.
DomServer ==
    [max_lines |-> MaxLines, max_mem |-> MaxMem, max_id |-> MaxId,
     lines |-> {Blank, Garbage, InvalidUtf8, Method("initialize"), Method("ping"),
                Method("notifications/initialized"), Method("tools/list"),
                Method("resources/list"),
                Call("add_memory", Add(cA, "bug", NoneStr, <<>>, NoneInt, NoneSeq)),
                Call("add_memory", Add(<<>>, "bug", NoneStr, <<>>, NoneInt, NoneSeq)),
                Call("get_memory", [id |-> 1]),
                Call("delete_memory", [id |-> 1]),
                Call("forget", NoArgs)}]

NextServer == StepServer(DomServer)

SpecServer == Init /\ [][NextServer]_vars

\* The brain of project p: a bug, a decision that names a component and an
\* update that makes a memory an architecture note, read with no project, with
\* the default budget and with budgets of 0, 4 and 8 tokens.
cLogin == <<Wd("Stripe"), Wd("login"), Wd("page")>>

DomBrain ==
    [max_changes |-> MaxChanges,
     max_mem |-> MaxMem, max_id |-> MaxId, ids |-> {1, MaxId}, gets |-> {1},
     projects |-> {NoneStr},
     adds |-> {Add(cA, "bug", "p", <<>>, NoneInt, NoneSeq),
               Add(cLogin, "decision", "p", <<>>, NoneInt, NoneSeq)},
     bulks |-> {<<Item(<<>>, "fact", NoneStr, NoneInt)>>},
     updates |-> {Upd(NoneSeq, "architecture", NoneSeq, NoneInt, NoneSeq)},
     lists |-> {[project |-> NoneStr, kind |-> NoneStr, limit |-> 20, offset |-> 0]},
     searches |-> {NoQuery}, events |-> {Removed},
     gcs |-> {[age_days |-> NoneInt, importance_threshold |-> NoneInt, dry_run |-> TRUE]},
     v1s |-> {<<>>},
     brains |-> {[project |-> NoneStr, max_tokens |-> NoneInt]} \cup
                {[project |-> "p", max_tokens |-> m] :
                    m \in {NoneInt, Some(0), Some(4), Some(6), Some(8)}}]

NextBrain == StepBrain(DomBrain)

SpecBrain == Init /\ [][NextBrain]_vars


\* Vectors of up to MaxVecLen components out of zero and minus zero, one and
\* minus one, the smallest subnormal, a quiet and a signalling NaN, 0.1, and a
\* value of four different bytes.
F32_VALUES ==
    {F32(0, 0), F32(1, 0), F32(0, 1065353216), F32(1, 1065353216), F32(0, 1),
     F32(0, 2143289344), F32(1, 2139095041), F32(0, 1036831949), F32(0, 16909060),
     F32(1, 2147483647)}

Vectors == UNION {[1..n -> F32_VALUES] : n \in 0..MaxVecLen}

InitBlob ==
    /\ InitServer
    /\ embedding_vec \in Vectors
    /\ embedding_blob = NoneSeq
    /\ restored_vec = NoneSeq

NextBlob == StepBlob

SpecBlob == InitBlob /\ [][NextBlob]_vars

\* A store of one memory more than the rank limit: a bulk add of 101 notes of
\* one word each, the third about stripe, the first and the last with the tag
\* t; searches for stripe with and without the tag; deletes of the first and
\* the last note and of an id never handed out.
RankItems ==
    [i \in 1..(RANK_LIMIT + 1) |->
        [Item(<<Wd(IF i = 3 THEN "stripe" ELSE "n" \o ToString(i))>>, "note", NoneStr,
              NoneInt)
         EXCEPT !.tags = IF i \in {1, RANK_LIMIT + 1} THEN <<"t">> ELSE <<>>]]

DomRank ==
    [max_mem |-> RANK_LIMIT + 1, max_id |-> RANK_LIMIT + 1,
     ids |-> {1, RANK_LIMIT + 1, RANK_LIMIT + 2},
     bulks |-> {RankItems},
     searches |-> {NoQuery,
                   Query(<<"stripe">>, 3, NoneStr, NoneStr, Some(<<"t">>)),
                   Query(<<"stripe">>, 3, NoneStr, NoneStr, NoneSeq)}]

NextRank == StepRank(DomRank)

SpecRank == Init /\ [][NextRank]_vars

\* ------------------------------------------------------------------ claims
\* C1: in every reachable state the full-text index holds exactly one row for
\* each stored memory and none for an absent memory, and that row's rowid is
\* the rowid of the memory row.
C1_FtsRowPerMemory ==
    /\ \A i \in 1..Len(memories) :
          Cardinality({f \in memories_fts : f.rowid = memories[i].rowid}) = 1
    /\ \A f \in memories_fts : \E i \in 1..Len(memories) : memories[i].rowid = f.rowid
    /\ \A i, j \in 1..Len(memories) : memories[i].rowid = memories[j].rowid => i = j

\* A GC cycle has merged a group: its rows are gone, the merged row is indexed.
C1_Witness ==
    /\ last.op = "run_gc"
    /\ last.report.groups_merged = 1
    /\ Len(memories) = 1
    /\ Cardinality(memories_fts) = 1

\* The rows find_duplicate reads for a project scope whose content is content.
rows_with_content(content, project) ==
    {m \in Range(Take(Reverse(SelectSeq(memories, LAMBDA r : r.project = project)),
                      DEDUP_SCAN_LIMIT)) : m.content = content}

\* C2 as stated: after two successive adds of one content in one scope there
\* is exactly one row with that content, the second call returned the id of the
\* first with was_merged, the row's tags are the union of the tags of the two
\* calls and its importance is the greater of the two importances.
C2_AsStated ==
    last.op = "add_memory" /\ last.ok /\ last.repeat
        => /\ last.merged
           /\ last.id = last.first.id
           /\ Cardinality(rows_with_content(last.content, last.project)) = 1
           /\ \A m \in rows_with_content(last.content, last.project) :
                 /\ m.id = last.id
                 /\ Range(m.tags) = Range(last.first.tags) \cup Range(last.tags)
                 /\ m.importance = Max2(last.first.importance, last.importance)

\* C2: the second of two successive adds of one content in one scope returns
\* the id of the first with was_merged; the row holds at least the tags of both
\* calls and at least the greater importance brought into 1..5.  When the first
\* call inserted the row, the row is the only one that find_duplicate reads
\* with that content, its tags are the union, and its importance is the
\* greater one brought into 1..5.
C2_RepeatedAddMerges ==
    last.op = "add_memory" /\ last.ok /\ last.repeat
        => /\ last.merged
           /\ last.id = last.first.id
           /\ \E i \in 1..Len(memories) :
                 /\ memories[i].id = last.id
                 /\ Range(last.first.tags) \cup Range(last.tags) \subseteq Range(memories[i].tags)
                 /\ memories[i].importance
                       >= Min2(5, Max2(1, Max2(last.first.importance, last.importance)))
                 /\ ~last.first.merged
                       => /\ rows_with_content(last.content, last.project) = {memories[i]}
                          /\ Range(memories[i].tags)
                                = Range(last.first.tags) \cup Range(last.tags)
                          /\ memories[i].importance
                                = Min2(5, Max2(1, Max2(last.first.importance, last.importance)))

\* The same content was added twice in project p, first with tag a and
\* importance 7 into a new row, then with tag b and importance 2.
C2_Witness ==
    /\ last.op = "add_memory"
    /\ last.ok
    /\ last.repeat
    /\ last.merged
    /\ ~last.first.merged
    /\ last.project = "p"
    /\ last.first.tags = <<"a">>
    /\ last.tags = <<"b">>
    /\ last.first.importance = 7
    /\ last.importance = 2

\* C3: a memory whose expires_at names an instant before the time of a search
\* or list call is not among the results of that call.
C3_ExpiredNotReturned ==
    last.op \in {"list_memories", "search_memory"} /\ last.ok
        => \A k \in 1..Len(last.results) :
              \A i \in 1..Len(memories) :
                 memories[i].id = last.results[k] /\ memories[i].expires_at.some
                    /\ memories[i].expires_at.v # <<>>
                    => instant(memories[i].expires_at.v) >= last.time

\* C4: an update with a non-empty expires_at stores it, an update without
\* expires_at keeps the stored one, and a memory whose expiry was cleared with
\* the empty value is not removed by the TTL sweep that follows.
C4_UpdateSetsExpiry ==
    [][/\ last'.op = "update_memory" /\ last'.ok /\ last'.expires_at # EmptyStr
            => \E i \in 1..Len(memories') :
                  /\ memories'[i].id = last'.id
                  /\ memories'[i].expires_at = IF last'.expires_at.some
                                               THEN last'.expires_at
                                               ELSE last'.old_expires_at
       /\ last.op = "update_memory" /\ last.ok /\ last.expires_at = EmptyStr
             /\ last'.op \in {"list_memories", "search_memory", "cleanup_expired"}
            => \E i \in 1..Len(memories') : memories'[i].id = last.id]_vars

\* C5: in every reachable state the source and the target of every link and
\* the memory of every entity row is a stored memory.
C5_NoDanglingReference ==
    /\ \A l \in memory_links : l.source_id \in ids_of(DB) /\ l.target_id \in ids_of(DB)
    /\ \A e \in memory_entities : e.memory_id \in ids_of(DB)

\* A memory that links named has been deleted, another one is still stored.
C5_Witness ==
    /\ last.op = "delete_memory"
    /\ last.ok
    /\ last.count > 0
    /\ memory_entities # {}

\* The number of memories in the groups of a cycle.
RECURSIVE compressed_in(_)
compressed_in(groups) ==
    IF groups = <<>> THEN 0 ELSE Len(Head(groups).ids) + compressed_in(Tail(groups))

\* C6: after a GC cycle that is no dry run, for every group of eligible
\* memories it found, the originals are gone, the report counts the group and
\* its memories, and a memory of the group's kind and project exists that has
\* the tag merged, importance 3 and, as its content, the summary of the group
\* (with its keywords in any order a HashMap may give them).
C6_GroupCompacted ==
    last.op = "run_gc" /\ ~last.dry_run
        => /\ last.report.groups_merged = Len(last.groups)
           /\ last.report.memories_compressed = compressed_in(last.groups)
           /\ \A k \in 1..Len(last.groups) :
                 /\ \A j \in 1..Len(last.groups[k].ids) :
                       last.groups[k].ids[j] \notin ids_of(DB)
                 /\ \E i \in 1..Len(memories) :
                       /\ memories[i].kind = last.groups[k].kind
                       /\ memories[i].project = last.groups[k].project
                       /\ "merged" \in Range(memories[i].tags)
                       /\ memories[i].importance = GC_IMPORTANCE
                       /\ \E hash_order \in HashOrders :
                             memories[i].content
                                = merge_memories(last.groups[k].contents, last.groups[k].kind,
                                                 last.groups[k].project, hash_order)

\* C7: a GC cycle that is no dry run removes a memory only if the TTL sweep
\* of the cycle takes it, or its kind is compressible, its importance is below
\* importance_threshold, its age in days is at least age_days and its GC score
\* exceeds 0.6.
C7_OnlyEligibleDeleted ==
    [][last'.op = "run_gc" /\ ~last'.dry_run
         => \A i \in 1..Len(memories) :
               memories[i].id \notin {memories'[j].id : j \in 1..Len(memories')}
                  => \/ expired(memories[i], now)
                     \/ /\ memories[i].kind \in Range(compressible_kinds)
                        /\ memories[i].importance < last'.importance_threshold
                        /\ num_days(now, memories[i].updated_at) >= last'.age_days
                        /\ score_exceeds(memories[i].importance,
                                         num_days(now, memories[i].updated_at),
                                         memories[i].kind)]_vars

\* A cycle has merged a group of two notes and left a memory of kind fact.
C7_Witness ==
    /\ last.op = "run_gc"
    /\ ~last.dry_run
    /\ last.report.groups_merged = 1
    /\ last.report.memories_compressed = 2
    /\ \E i \in 1..Len(memories) : memories[i].kind = "fact"

\* C8: a GC cycle with dry_run = true leaves memories, full-text rows, links,
\* entities and projects as they were.
C8_DryRunMutatesNothing ==
    [][last'.op = "run_gc" /\ last'.dry_run
         => UNCHANGED <<memories, memories_fts, memory_links, memory_entities, projects>>]_vars

\* A dry run has counted a mergeable group while an expired memory is stored.
C8_Witness ==
    /\ last.op = "run_gc"
    /\ last.dry_run
    /\ last.report.groups_merged = 1
    /\ last.report.memories_compressed = 2
    /\ \E i \in 1..Len(memories) : expired(memories[i], last.time)

\* C9: every stored memory has an importance between 1 and 5.
C9_ImportanceInRange ==
    \A i \in 1..Len(memories) : memories[i].importance \in 1..5

\* An add with importance 0 has merged into a row, an update with 9 was made.
C9_Witness ==
    /\ last.op = "add_memory"
    /\ last.ok
    /\ last.merged
    /\ last.importance = 0
    /\ \E i \in 1..Len(memories) : memories[i].importance = 5

\* C10: the kind of every stored memory is one of the nine valid kinds.
C10_StoredKindsValid ==
    \A i \in 1..Len(memories) : memories[i].kind \in VALID_KINDS


\* C11: the content of every stored memory is non-empty after trimming,
\* whatever add_memory, add_memories and update_memory calls were made.
C11_ContentNonEmpty ==
    \A i \in 1..Len(memories) : ~trim_is_empty(memories[i].content)


\* C12: a search returns at most limit results, and the scores of its results
\* do not increase from the first result to the last.
C12_SearchSortedAndLimited ==
    (last.op = "search_memory" /\ last.ok) =>
        /\ Len(last.results) <= last.limit
        /\ Len(last.scores) = Len(last.results)
        /\ \A k \in 1..(Len(last.scores) - 1) : last.scores[k] >= last.scores[k + 1]

\* A search for two results returned two memories with different scores, the
\* memory updated first after the one updated last.
C12_Witness ==
    /\ last.op = "search_memory" /\ last.ok
    /\ Len(last.results) = 2
    /\ last.scores[1] > last.scores[2]
    /\ index_of(DB, last.results[1]) > index_of(DB, last.results[2])


\* C13: a search adds exactly 1 to access_count and sets last_accessed_at to
\* the time of the call for each memory it returns, and leaves both columns of
\* every memory that it does not return as they were.
C13_SearchTouchesOnlyResults ==
    [][(last'.op = "search_memory" /\ last'.ok /\ UNCHANGED <<now, recent_changes>>)
         => /\ Range(last'.results) \subseteq ids_of(DB)
            /\ \A i \in 1..Len(memories') :
                  \E j \in 1..Len(memories) :
                     /\ memories[j].id = memories'[i].id
                     /\ IF memories[j].id \in Range(last'.results)
                        THEN /\ memories'[i].access_count = memories[j].access_count + 1
                             /\ memories'[i].last_accessed_at = now
                        ELSE /\ memories'[i].access_count = memories[j].access_count
                             /\ memories'[i].last_accessed_at = memories[j].last_accessed_at]_vars

\* A search at tick 2 returned one memory of two; the other one was read at
\* tick 1 and still says so.
C13_Witness ==
    /\ last.op = "search_memory" /\ last.ok /\ last.time = 2
    /\ Len(last.results) = 1
    /\ \E i, j \in 1..Len(memories) :
          /\ memories[i].id = last.results[1]
          /\ memories[i].access_count = 1 /\ memories[i].last_accessed_at = 2
          /\ memories[j].id # last.results[1]
          /\ memories[j].access_count = 1 /\ memories[j].last_accessed_at = 1


\* C14: the memory_entities rows of every stored memory are the entities that
\* extract_entities finds in its content and project, compared by kind and
\* lower-cased value.
C14_EntitiesMatchContent ==
    \A i \in 1..Len(memories) :
        {[kind |-> e.entity_kind, value |-> to_lowercase(e.entity_value)] :
            e \in {x \in memory_entities : x.memory_id = memories[i].id}}
        = {[kind |-> e.kind, value |-> to_lowercase(e.value)] :
            e \in extract_entities(memories[i].content, memories[i].project)}


C16_NoNearDuplicates ==
    \A i, j \in 1..Len(memories) :
        (i < j /\ memories[i].project = memories[j].project)
            => ~at_least_threshold(similarity(normalize(memories[i].content),
                                              normalize(memories[j].content)))


\* The kinds that infer_relation tells apart, and one that it does not.
InferredKinds == {"bug", "decision", "architecture", "snippet", "pattern", "todo", "fact"}

\* Some pair of kinds makes infer_relation answer "deprecates".
DeprecatesInferred ==
    \E source_kind, target_kind \in InferredKinds \cup VALID_KINDS :
        infer_relation(source_kind, target_kind) = "deprecates"

\* With a deprecates link from a stored memory P to a stored memory Q, the
\* score of Q is lower than with no link from P to Q, at any ranks.
DeprecatesLowersScore ==
    \A i, j \in 1..Len(memories) :
        i # j =>
            \A bm25_rank, vec_rank \in {1, 2, MISSING_RANK} :
                Let({l \in memory_links :
                        ~(l.source_id = memories[i].id /\ l.target_id = memories[j].id)},
                    LAMBDA others :
                        score_lt(fused_score(memories[j], bm25_rank, vec_rank,
                                     others \cup {[source_id |-> memories[i].id,
                                                   target_id |-> memories[j].id,
                                                   relation_type |-> "deprecates"]},
                                     NoneSeq, NoneSeq),
                                 fused_score(memories[j], bm25_rank, vec_rank, others,
                                             NoneSeq, NoneSeq)))

\* No stored link has the relation type deprecates.
NoDeprecatesLink == \A l \in memory_links : l.relation_type # "deprecates"

\* C17: once two memories that share an entity are linked, the kinds of two
\* such memories can make the inferred relation of the link P -> Q
\* "deprecates", and a memory with such an incoming link scores strictly lower
\* in a search than without the link.
C17_DeprecatesPenalty ==
    memory_links # {} => (DeprecatesInferred /\ DeprecatesLowersScore)


\* The tag multiplier of the claim, as the fraction n / d: none for an absent
\* or empty filter, 1.5 for a memory that carries a filter tag (compared in
\* lower case), 0.1 for one that carries none.
stated_tag_multiplier(mem, filter) ==
    IF ~filter.some \/ filter.v = <<>> THEN [n |-> 1, d |-> 1]
    ELSE IF {to_lowercase(mem.tags[i]) : i \in 1..Len(mem.tags)}
            \cap {to_lowercase(filter.v[i]) : i \in 1..Len(filter.v)} # {}
         THEN [n |-> 3, d |-> 2]
         ELSE [n |-> 1, d |-> 10]

\* C18: a search with a tags argument returns as many results as the limit
\* and the candidates of the project and kind filter allow, and the score of
\* each result is its score in the same search without tags (at some BM25 and
\* cosine orders of the candidates) times 1.5 if the memory carries a filter
\* tag, times 0.1 if the filter is non-empty and it carries none, and times 1
\* if the filter is empty.
C18_TagMultiplier ==
    (last.op = "search_memory" /\ last.ok /\ last.filter_tags.some) =>
        /\ Len(last.results) =
              Min2(last.limit, Cardinality(all_memories(DB, last.project, last.kind)))
        /\ \E bm25_order, vec_order \in Perms(ids_of(DB)) :
              Let(rrf_scores(DB, last.query, last.project, last.kind, NoneSeq,
                             last.watcher_keywords, bm25_order, vec_order), LAMBDA plain :
                  \A k \in 1..Len(last.results) :
                      Let(stated_tag_multiplier(
                              memories[index_of(DB, last.results[k])], last.filter_tags),
                          LAMBDA mult :
                              last.scores[k] =
                                  round4(times(plain[last.results[k]], mult.n, mult.d))))


\* The number of distinct keywords that the lower-cased content holds.
distinct_matches(content, supplied) ==
    Cardinality({w \in Range(supplied) : contains_keyword(content, w)})

\* C19: in a search that gets keywords from the watcher, the score of each
\* result is its score in the same search without keywords (at some BM25 and
\* cosine orders of the candidates) times 1 + 0.2 * m, m the number of distinct
\* keywords that its lower-cased content holds.
C19_WatcherMultiplier ==
    (last.op = "search_memory" /\ last.ok /\ last.watcher_keywords.some) =>
        \E bm25_order, vec_order \in Perms(ids_of(DB)) :
            Let(rrf_scores(DB, last.query, last.project, last.kind, last.filter_tags,
                           NoneSeq, bm25_order, vec_order), LAMBDA plain :
                \A k \in 1..Len(last.results) :
                    last.scores[k] =
                        round4(times(plain[last.results[k]],
                                     5 + distinct_matches(
                                             memories[index_of(DB, last.results[k])].content,
                                             last.watcher_keywords.v),
                                     5)))


\* The content begins with the tokens of prefix.
begins_with(content, prefix) ==
    Len(content) >= Len(prefix) /\ SubSeq(content, 1, Len(prefix)) = prefix

\* C20: the content that a GC cycle produces for a merged group begins with
\* "[MERGED] <kind label> related to:", whether the group is of a project or
\* of the global scope.
C20_MergedContentPrefix ==
    last.op = "run_gc" =>
        \A k \in 1..Len(last.groups) :
            begins_with(last.groups[k].merged_content,
                        <<Tok("[", "MERGED", "]")>> \o kind_label(last.groups[k].kind)
                        \o <<Wd("related"), Tok("", "to", ":")>>)

\* C21: the queue of the watcher never holds more than 20 changes, and a step
\* of the watcher that records the change of one file leaves in the queue the
\* changes it held and the new one behind them, without the oldest one when it
\* held 20.
C21_QueueBounded ==
    [][/\ Len(recent_changes') <= 20
       /\ recent_changes' # recent_changes
             => /\ Len(recent_changes') = Min2(Len(recent_changes) + 1, 20)
                /\ recent_changes' =
                      SubSeq(recent_changes
                                \o <<recent_changes'[Len(recent_changes')]>>,
                             Len(recent_changes) + 2 - Len(recent_changes'),
                             Len(recent_changes) + 1)]_vars

\* The queue holds 20 changes, the oldest of tick 1 and the newest of tick 2.
C21_Witness ==
    /\ Len(recent_changes) = 20
    /\ recent_changes[1].timestamp = 1
    /\ recent_changes[20].timestamp = 2


\* C22: every change in the queue of the watcher has a path that holds none
\* of "/.", "/node_modules/" and "/target/", and a file name with an extension
\* among rs, ts, tsx, jsx, svelte, py, js, go and md; a file with no extension
\* is never in the queue (a removal puts nothing into the queue).
C22_StoredEventsFiltered ==
    \A i \in 1..Len(recent_changes) :
        /\ ~skipped_path(recent_changes[i].path)
        /\ extension(recent_changes[i].filename).some
        /\ extension(recent_changes[i].filename).v \in WATCHED_EXTENSIONS


\* A scan that cuts before an upper-case letter only after a lower-case one.
RECURSIVE stated_scan(_, _, _)
stated_scan(stem, current_word, words) ==
    IF stem = <<>>
    THEN IF current_word # <<>> THEN Append(words, current_word) ELSE words
    ELSE IF is_alphanumeric(Head(stem))
    THEN IF /\ is_uppercase(Head(stem)) /\ current_word # <<>>
            /\ current_word[Len(current_word)] \in LOWERCASE
         THEN stated_scan(Tail(stem), <<Head(stem)>>, Append(words, current_word))
         ELSE stated_scan(Tail(stem), Append(current_word, Head(stem)), words)
    ELSE IF current_word # <<>>
    THEN stated_scan(Tail(stem), <<>>, Append(words, current_word))
    ELSE stated_scan(Tail(stem), <<>>, words)

\* The keywords of the claim for a queue of changes.
RECURSIVE stated_keywords(_)
stated_keywords(changes) ==
    IF changes = <<>> THEN <<>>
    ELSE Let(stated_scan(first_part(Head(changes).filename), <<>>, <<>>), LAMBDA words :
             [i \in 1..Len(words) |-> string_of(words[i])])
         \o stated_keywords(Tail(changes))

\* C23: the keywords that a search gets from the watcher are the words of the
\* stems of the file names in the queue, in the order of the queue and with
\* their repetitions, a stem cut at every character that is not alphanumeric
\* and between a lower-case letter and an upper-case letter that follows it,
\* and nowhere else.
C23_KeywordSplit ==
    [][(last'.op = "search_memory" /\ last'.ok /\ UNCHANGED <<now, recent_changes>>)
         => last'.watcher_keywords =
               (IF stated_keywords(recent_changes) = <<>> THEN NoneSeq
                ELSE Some(stated_keywords(recent_changes)))]_vars

\* C24: the main thread owns the lock of the watcher state only between
\* watcher.lock() and the end of the block that copies the keywords: while it
\* is in the rest of search_memory or get_file_context, where the store is
\* called, it does not own the lock, so the watcher thread, when it waits for
\* the lock then, finds it free.
C24_NoLockAcrossStore ==
    /\ lock = "request" => request.pc \in {"copy", "unlock"}
    /\ request.pc = "call" => lock # "request"
    /\ (request.pc = "call" /\ watcher.pc = "lock") => lock = "none"

\* The watcher thread owns the lock and pushes while the main thread, with
\* the keywords of an earlier change copied, is about to call the store.
C24_Witness ==
    /\ request.pc = "call"
    /\ request.keywords # <<>>
    /\ lock = "watcher"
    /\ watcher.pc = "push"
    /\ memories # <<>>

\* The lines read that are not blank.
requests_read == SelectSeq(stdin, LAMBDA line : line.kind # "blank")

\* C25: the server has written one response for every line read that is not
\* blank, in the order of the lines: error -32700 for a line that does not
\* parse, error -32601 for a method it does not know, for a tools/call a result
\* (isError for a call that failed) and a result for the other methods, each
\* with the id of its request; and it is still serving.
C25_OneResponsePerRequest ==
    /\ serving
    /\ Len(stdout) = Len(requests_read)
    /\ \A k \in 1..Len(stdout) :
          Let(requests_read[k], LAMBDA line :
              IF line.kind # "request"
              THEN stdout[k] = [id |-> NoneInt, code |-> PARSE_ERROR, isError |-> FALSE]
              ELSE /\ stdout[k].id = Some(line.id)
                   /\ stdout[k].code =
                         (IF line.method \in {"initialize", "notifications/initialized",
                                              "tools/list", "tools/call", "ping"}
                          THEN 0 ELSE METHOD_NOT_FOUND)
                   /\ (stdout[k].isError => line.method = "tools/call")
                   /\ (k = Len(stdout) /\ line.method = "tools/call"
                          => stdout[k].isError = ~last.ok))

\* C26: a get_memory, update_memory or delete_memory call succeeds only with
\* the id of a stored memory, and a call that answers with an error (with any
\* other id it answers not found) leaves the memories, the full-text rows, the
\* links and the entities as they were.
C26_NotFoundChangesNothing ==
    [][(last'.op \in {"get_memory", "update_memory", "delete_memory"}
           /\ UNCHANGED <<now, recent_changes>>)
         => /\ last'.ok => last'.id \in ids_of(DB)
            /\ ~last'.ok => UNCHANGED <<memories, memories_fts, memory_links,
                                        memory_entities>>]_vars

\* A delete_memory call has answered not found while two linked memories are
\* stored.
C26_Witness ==
    /\ last.op = "delete_memory"
    /\ ~last.ok
    /\ Len(memories) = 2
    /\ memory_links # {}
    /\ memory_entities # {}

\* C27: the embedding of every stored memory has 384 components and is the
\* embedding of the content the memory has now, whatever adds, merges,
\* updates, imports and GC cycles wrote it.
C27_EmbeddingOfContent ==
    \A i \in 1..Len(memories) :
        /\ memories[i].embedding.dim = 384
        /\ memories[i].embedding = embed_text(memories[i].content)

\* An update has given a memory the content "stripe api key", whose embedding
\* holds the synonyms of api, while an imported memory is stored.
C27_Witness ==
    /\ last.op = "update_memory" /\ last.ok
    /\ \E i, j \in 1..Len(memories) :
          /\ memories[i].id = last.id
          /\ memories[i].content = cB
          /\ memories[i].embedding.tokens =
                <<"stripe", "api", "key", "endpoints", "server", "routes">>
          /\ memories[j].source = "v1-import"

\* C28: the strings of a brain (tech stack, architecture, decisions, bugs,
\* recent changes, key components) are together at most 4 x max_tokens
\* characters long, 6000 when max_tokens is absent, and approx_tokens_used is
\* at most max_tokens.
brain_chars(b) ==
    chars_of(value_lens(b.tech_stack), Len(b.tech_stack))
    + chars_of(content_lens(b.core_architecture), Len(b.core_architecture))
    + chars_of(content_lens(b.current_critical_decisions), Len(b.current_critical_decisions))
    + chars_of(content_lens(b.active_bugs_known), Len(b.active_bugs_known))
    + chars_of(content_lens(b.recent_changes), Len(b.recent_changes))
    + chars_of(value_lens(b.key_components), Len(b.key_components))

byte_value(blob, i, k, unit) == blob[4 * (i - 1) + k] * unit

C29_BlobRoundTrip ==
    /\ embedding_blob.some =>
          /\ Len(embedding_blob.v) = 4 * Len(embedding_vec)
          /\ \A j \in 1..Len(embedding_blob.v) : embedding_blob.v[j] \in 0..255
          /\ \A i \in 1..Len(embedding_vec) :
                /\ embedding_blob.v[4 * i] \div 128 = embedding_vec[i].sign
                /\ byte_value(embedding_blob.v, i, 1, 1)
                   + byte_value(embedding_blob.v, i, 2, 256)
                   + byte_value(embedding_blob.v, i, 3, 65536)
                   + (embedding_blob.v[4 * i] % 128) * 16777216 = embedding_vec[i].bits
    /\ restored_vec.some => restored_vec.v = embedding_vec

\* A vector of a NaN with a payload and of a value of four different bytes
\* has come back.
C29_Witness ==
    /\ restored_vec.some
    /\ embedding_vec = <<F32(1, 2139095041), F32(0, 16909060)>>
    /\ embedding_blob.v = <<1, 0, 128, 255, 4, 3, 2, 1>>

\* C30: every memory a search returns is among the first 100 rows of the
\* lexical query or among the first 100 rows of the vector order; a row of
\* the filter that is in neither is not returned.
C30_ResultsAreRanked ==
    (last.op = "search_memory" /\ last.ok) =>
        \A k \in 1..Len(last.results) : last.results[k] \in last.lexical \cup last.vector

\* C31: when a search or list call returns, no stored memory has an
\* expires_at that names an instant before the time the call started.
C31_SweptOnReturn ==
    last.op \in {"list_memories", "search_memory"} /\ last.ok
        => \A i \in 1..Len(memories) :
              memories[i].expires_at.some /\ memories[i].expires_at.v # <<>>
                 => instant(memories[i].expires_at.v) >= last.time

\* ---------------------------------------------------------------------
\* Adds that meet a stored near-duplicate: contents of both lengths, tags
\* that overlap and repeat, an expiry given and not given.
DomMergeAdd ==
    [max_changes |-> MaxChanges,
     max_mem |-> MaxMem, max_id |-> MaxId, ids |-> {MaxId}, gets |-> {MaxId},
     projects |-> {NoneStr},
     adds |-> {Add(cA, "bug", "p", <<"a">>, Some(3), NoneSeq),
               Add(cA, "fact", "p", <<"c">>, Some(2), timestamp(2, 0)),
               Add(cA2, "decision", "p", <<"b", "a", "b">>, Some(4), timestamp(1, 0)),
               Add(cA2, "fact", "p", <<>>, Some(1), NoneSeq)},
     bulks |-> {<<Item(<<>>, "fact", NoneStr, NoneInt)>>},
     updates |-> {Upd(NoneSeq, NoneStr, NoneSeq, Some(1), NoneSeq)},
     lists |-> {[project |-> NoneStr, kind |-> NoneStr, limit |-> 0, offset |-> 0]},
     searches |-> {NoQuery}, events |-> {Removed},
     gcs |-> {[age_days |-> NoneInt, importance_threshold |-> NoneInt, dry_run |-> TRUE]},
     v1s |-> {<<>>}]

NextMergeAdd == Step(DomMergeAdd)

SpecMergeAdd == Init /\ [][NextMergeAdd]_vars

\* The tags of `tags` that `merged` does not hold, each once, in order.
RECURSIVE tags_not_present(_, _)
tags_not_present(merged, tags) ==
    IF tags = <<>> THEN <<>>
    ELSE IF Head(tags) \in Range(merged)
         THEN tags_not_present(merged, Tail(tags))
         ELSE <<Head(tags)>> \o tags_not_present(merged \o <<Head(tags)>>, Tail(tags))

\* C32: an add that merges keeps the id, kind and project of the stored
\* memory, stores the longer of the two contents (the stored one when
\* they are equally long), the stored tags followed by the new tags not
\* yet present, and the new expires_at when one was given, else the
\* stored one.
C32_MergeKeepsAndCombines ==
    [][(last'.op = "add_memory" /\ last'.ok /\ last'.merged)
          => \E i \in 1..Len(memories) : \E j \in 1..Len(memories') :
                /\ memories[i].id = last'.id
                /\ memories'[j].id = last'.id
                /\ memories'[j].kind = memories[i].kind
                /\ memories'[j].project = memories[i].project
                /\ memories'[j].content =
                      IF str_len(last'.content) > str_len(memories[i].content)
                      THEN last'.content ELSE memories[i].content
                /\ memories'[j].tags =
                      memories[i].tags \o tags_not_present(memories[i].tags, last'.tags)
                /\ memories'[j].expires_at =
                      IF last'.expires_at.some THEN last'.expires_at
                      ELSE memories[i].expires_at]_vars

\* A merge replaced the shorter stored content, added tags behind the
\* stored ones and kept the stored kind and the given expiry.
C32_Witness ==
    /\ last.op = "add_memory" /\ last.ok /\ last.merged
    /\ last.content = cA2 /\ last.tags = <<"b", "a", "b">>
    /\ \E i \in 1..Len(memories) :
          /\ memories[i].id = last.id
          /\ memories[i].content = cA2
          /\ memories[i].kind = "bug"
          /\ memories[i].tags = <<"a", "b">>
          /\ memories[i].expires_at = timestamp(1, 0)

\* ---------------------------------------------------------------------
\* Updates that supply every subset of interest of the fields, on rows
\* that were searched before.
DomUpdate ==
    [max_changes |-> MaxChanges,
     max_mem |-> 1, max_id |-> MaxId, ids |-> {1}, gets |-> {1},
     projects |-> {NoneStr},
     adds |-> {Add(cA, "bug", "p", <<"a">>, Some(4), timestamp(2, 0))},
     bulks |-> {<<Item(<<>>, "fact", NoneStr, NoneInt)>>},
     updates |-> {NoFields,
                  Upd(Some(cB), NoneStr, NoneSeq, NoneInt, NoneSeq),
                  Upd(NoneSeq, "decision", NoneSeq, NoneInt, NoneSeq),
                  Upd(NoneSeq, NoneStr, Some(<<"z">>), NoneInt, NoneSeq),
                  Upd(NoneSeq, NoneStr, NoneSeq, Some(9), NoneSeq),
                  Upd(Some(cA2), "fact", Some(<<>>), Some(2), NoneSeq)},
     lists |-> {[project |-> NoneStr, kind |-> NoneStr, limit |-> 0, offset |-> 0]},
     searches |-> {NoQuery, Query(<<"jwt">>, 1, NoneStr, NoneStr, NoneSeq)},
     events |-> {Removed},
     gcs |-> {[age_days |-> NoneInt, importance_threshold |-> NoneInt, dry_run |-> TRUE]},
     v1s |-> {<<>>}]

NextUpdate == Step(DomUpdate)

SpecUpdate == Init /\ [][NextUpdate]_vars

brain_sections(b, project, t) ==
    LET of_kind(kind) == Cardinality({i \in 1..Len(memories) :
                            memories[i].project = project /\ memories[i].kind = kind})
        recent == Cardinality({i \in 1..Len(memories) :
                      memories[i].project = project /\ updated_this_week(memories[i], t)})
    IN <<[got |-> Len(b.tech_stack),
          avail |-> Min2(15, Cardinality(entity_values(DB, project, {"tech"})))],
         [got |-> Len(b.core_architecture), avail |-> Min2(10, of_kind("architecture"))],
         [got |-> Len(b.current_critical_decisions), avail |-> Min2(10, of_kind("decision"))],
         [got |-> Len(b.active_bugs_known), avail |-> Min2(10, of_kind("bug"))],
         [got |-> Len(b.recent_changes), avail |-> Min2(10, recent)],
         [got |-> Len(b.key_components),
          avail |-> Min2(15, Cardinality(entity_values(DB, project,
                                                       {"component", "file"})))]>>

\* C34: once a section of the brain has left out an entry that did not
\* fit the budget, no section of lower priority holds any entry.
C34_NothingAfterFirstMisfit ==
    (last.op = "get_project_brain" /\ last.ok) =>
        \E s \in {brain_sections(last.brain, last.project, last.time)} :
           \A i \in 1..6 : \A j \in 1..6 :
              (i < j /\ s[i].got < s[i].avail) => s[j].got = 0

\* ---------------------------------------------------------------------
\* Preferences, patterns and facts, global and of two projects, and the
\* contexts of a project and of no project.
cTabs == <<Wd("prefer"), Wd("tabs")>>

DomContext ==
    [max_changes |-> MaxChanges,
     max_mem |-> MaxMem, max_id |-> MaxId, ids |-> {MaxId}, gets |-> {MaxId},
     projects |-> {NoneStr},
     adds |-> {Add(cTabs, "preference", NoneStr, <<>>, NoneInt, NoneSeq),
               Add(cTabs, "preference", "q", <<>>, NoneInt, NoneSeq),
               Add(cA, "pattern", "p", <<>>, NoneInt, NoneSeq),
               Add(cB, "snippet", NoneStr, <<>>, NoneInt, NoneSeq)},
     bulks |-> {<<Item(<<>>, "fact", NoneStr, NoneInt)>>},
     updates |-> {Upd(NoneSeq, NoneStr, NoneSeq, Some(1), NoneSeq)},
     lists |-> {[project |-> NoneStr, kind |-> NoneStr, limit |-> 0, offset |-> 0]},
     searches |-> {NoQuery}, events |-> {Removed},
     gcs |-> {[age_days |-> NoneInt, importance_threshold |-> NoneInt, dry_run |-> TRUE]},
     v1s |-> {<<>>},
     contexts |-> {NoneStr, "p"}]

NextContext == StepContext(DomContext)

SpecContext == Init /\ [][NextContext]_vars

\* C35: the preference items of a project context are memories with no
\* project, at most 50 of them, and the context holds at most 100 project
\* items, 50 pattern items and 20 snippet items.
C35_ContextPreferencesGlobal ==
    (last.op = "get_project_context" /\ last.ok) =>
        /\ \A k \in 1..Len(last.context.items.preferences) :
              \A i \in 1..Len(memories) :
                 memories[i].id = last.context.items.preferences[k]
                    => memories[i].project = NoneStr
        /\ Len(last.context.items.preferences) <= 50
        /\ Len(last.context.items.project) <= 100
        /\ Len(last.context.items.patterns) <= 50
        /\ Len(last.context.items.snippets) <= 20

\* ---------------------------------------------------------------------
\* One global-prompt file that other processes write and remove while the
\* server looks it up.
MaxModified == 3

PromptContents == {"be brief", "be kind"}

NextPrompt ==
    \/ \E content \in PromptContents :
       \E modified \in {prompt_file.modified, prompt_file.modified + 1} :
          /\ modified \in 1..MaxModified
          /\ write_file(content, modified)
          /\ UNCHANGED <<now, tables, last, recent_changes, threads, stream, codec>>
    \/ remove_file /\ UNCHANGED <<now, tables, last, recent_changes, threads, stream, codec>>
    \/ prompt_metadata /\ UNCHANGED <<now, tables, last, recent_changes, threads, stream, codec>>
    \/ prompt_read /\ UNCHANGED <<now, tables, last, recent_changes, threads, stream, codec>>

SpecPrompt == Init /\ [][NextPrompt]_vars

\* C36: a lookup that finds an mtime other than the cached one returns the
\* content of the file and stores it with that mtime; a lookup that finds
\* the cached mtime returns the cached content and leaves the entry alone;
\* and an entry that is stored pairs the content with the mtime the file
\* has when the content is read.
C36_CachePairsContentWithItsMtime ==
    [][(prompt_call.pc = "lock" /\ prompt_call'.pc = "return" /\ prompt_file.exists)
          => IF PROMPT_CACHE.some /\ PROMPT_CACHE.v[1] = prompt_call.modified
             THEN /\ prompt_call'.result = Some(PROMPT_CACHE.v[2])
                  /\ PROMPT_CACHE' = PROMPT_CACHE
             ELSE /\ prompt_call'.result = Some(prompt_file.content)
                  /\ PROMPT_CACHE'.some
                  /\ PROMPT_CACHE'.v[2] = prompt_file.content
                  /\ PROMPT_CACHE'.v[1] = prompt_call.modified
                  /\ PROMPT_CACHE'.v[1] = prompt_file.modified]_vars

\* ---------------------------------------------------------------------
\* Adds of two related notes, each of which SQLite may fail.
DomFails ==
    [max_changes |-> MaxChanges,
     max_mem |-> MaxMem, max_id |-> MaxId, ids |-> {1}, gets |-> {1},
     projects |-> {NoneStr},
     adds |-> {Add(cB, "bug", "p", <<>>, NoneInt, NoneSeq),
               Add(cC, "decision", "p", <<>>, NoneInt, NoneSeq)},
     bulks |-> {<<Item(<<>>, "fact", NoneStr, NoneInt)>>},
     updates |-> {Upd(NoneSeq, NoneStr, NoneSeq, Some(1), NoneSeq)},
     lists |-> {[project |-> NoneStr, kind |-> NoneStr, limit |-> 20, offset |-> 0]},
     searches |-> {NoQuery}, events |-> {Removed},
     gcs |-> {[age_days |-> NoneInt, importance_threshold |-> NoneInt, dry_run |-> TRUE]},
     v1s |-> {<<>>},
     failures |-> {"insert", "fts"}]

NextFails == StepFails(DomFails)

SpecFails == Init /\ [][NextFails]_vars

\* C37: an add that returns an error leaves every table as it was, so that
\* no row of memories is without its row of memories_fts.
C37_FailedAddChangesNothing ==
    [][(last'.op = "add_memory" /\ ~last'.ok)
          => /\ UNCHANGED tables
             /\ \A i \in 1..Len(memories') :
                   \E f \in memories_fts' : f.rowid = memories'[i].rowid]_vars

\* ---------------------------------------------------------------------
\* The days after which a summary of importance 3 and kind bug scores
\* above 0.6.
SummaryAge == 122

\* Two bugs and, four months on, two notes on the same subjects, with GC
\* cycles of the threshold 4.
DomSeasons ==
    [max_mem |-> MaxMemGC, max_id |-> MaxIdGC, ids |-> {MaxIdGC + 1},
     projects |-> {NoneStr},
     bulks |-> {<<Item(cA, "bug", NoneStr, Some(1)), Item(cB, "bug", NoneStr, Some(1))>>},
     adds |-> {Add(c, "note", NoneStr, <<>>, Some(1), NoneSeq) : c \in {cA, cB}},
     gcs |-> {[age_days |-> Some(0), importance_threshold |-> Some(4), dry_run |-> FALSE]},
     days |-> {SummaryAge}]

NextSeasons == StepCompact(DomSeasons)

SpecSeasons == Init /\ [][NextSeasons]_vars

\* The rows of a kind and a project that a GC cycle started now with the
\* configuration of the call finds eligible, in the order it reads them.
eligible_rows(kind, project, config) ==
    SelectSeq(rows_by_rowid(memories), LAMBDA m :
        /\ m.kind = kind /\ m.project = project
        /\ ~expired(m, now)
        /\ eligible(m, now, kind, config))

\* C38: a GC cycle puts at most max_merge_group memories into one merged
\* memory; the only eligible memory of a bucket and the eligible memories
\* of a bucket behind the first max_merge_group are stored after the
\* cycle as they were before.
C38_MergeGroupBounded ==
    [][(last'.op = "run_gc" /\ last'.ok /\ ~last'.dry_run)
          => \E config \in {[default_config EXCEPT
                                !.age_days = last'.age_days,
                                !.importance_threshold = last'.importance_threshold]} :
             /\ \A g \in 1..Len(last'.groups) :
                   Len(last'.groups[g].ids) <= config.max_merge_group
             /\ \A k \in 1..Len(compressible_kinds) :
                \A p \in {memories[i].project : i \in 1..Len(memories)} :
                \E rows \in {eligible_rows(compressible_kinds[k], p, config)} :
                   \A i \in 1..Len(rows) :
                      (Len(rows) = 1 \/ i > config.max_merge_group)
                         => \E j \in 1..Len(memories') : memories'[j] = rows[i]]_vars

\* C39: the memory an add without expires_at has returned, inserted or
\* merged, is still stored after a search, a list or a cleanup_expired
\* call that follows the add.
C39_NoExpiryNeverSwept ==
    [][(/\ last.op = "add_memory" /\ last.ok /\ ~last.expires_at.some
        /\ last'.op \in {"search_memory", "list_memories", "cleanup_expired"})
          => \E j \in 1..Len(memories') : memories'[j].id = last.id]_vars

\* C40: the relation_type of every stored link is infer_relation of the
\* kinds its source and its target have now.
C40_LinksFollowKinds ==
    \A l \in memory_links :
       \A i \in 1..Len(memories) : \A j \in 1..Len(memories) :
          (memories[i].id = l.source_id /\ memories[j].id = l.target_id)
             => l.relation_type = infer_relation(memories[i].kind, memories[j].kind)

\* A bug and a decision of one project were linked, and the kind of one of
\* them was then changed by an update: the links name the new relation.
C40_Witness ==
    /\ last.op = "update_memory" /\ last.ok /\ last.kind = "architecture"
    /\ \E l \in memory_links :
          /\ l.source_id = last.id
          /\ l.relation_type = "decided_by"
    /\ \E l \in memory_links :
          /\ l.target_id = last.id
          /\ l.relation_type = "implements"

====
